---- MODULE Spec2Model ----
(***************************************************************************)
(* Batch generation and quality control of the TGW playbook, stage 3:      *)
(*   stages/stage3-default-notebook/batch_processor.py        (TGWBatch-   *)
(*       Generator, QualityMetrics)                                        *)
(*   stages/stage3-default-notebook/tools/batch_processor.py  (Advanced-   *)
(*       BatchProcessor, QualityController)                                *)
(*                                                                         *)
(* A text is a sequence of one-character strings.  Scores are exact        *)
(* rationals: the scores of QualityMetrics, which the code rounds to three *)
(* decimals, are integers in thousandths; the score of QualityController,  *)
(* which the code does not round, is a pair <<numerator, denominator>>.    *)
(* Binary floating point is not modelled: a sum the code computes in       *)
(* floats is computed exactly here.                                        *)
(***************************************************************************)
EXTENDS Integers, Sequences, FiniteSets, TLC

(***************************************************************************)
(* Bounds of the model.                                                    *)
(***************************************************************************)
\* the longest text and the longest prompt that are scored exhaustively
MaxLen == 3
MaxPromptLen == 2
\* the number of repetitions of a unit in the long texts
Reps == 25
\* the most tasks of a batch
MaxTasks == 2
\* the widest worker pool: main builds its generator with max_concurrent=2
MaxConcurrent == 2
\* quality_threshold: float = 0.6, in thousandths
DefaultQualityThreshold == 600
\* max_retries: int = 2
DefaultMaxRetries == 2
\* the most tasks that are created for one batch, the latest clock reading
MaxCreated == 2
MaxClock == 1

VARIABLES
    mode,   \* the entry point this run calls
    sc,     \* a scoring call: its arguments and what the two scorers returned
    cl,     \* a call of generate_single and of _process_single_task
    cr,     \* the tasks created for one batch and the reading of the clock
    frames,          \* the call stack of batch_generate
    proc,            \* the call of process_batch
    max_concurrent,  \* the width of the worker pool
    sent,            \* the requests posted to the endpoint, in order
    saved,           \* the summaries of the result files written, in order
    returned         \* what the call of the orchestrator returned or raised


(***************************************************************************)
(* Characters and the str methods the scorers use.  A character outside    *)
(* ASCII is written by its code point: "u3002" is the ideographic full     *)
(* stop, "uFF01" and "uFF1F" the fullwidth ! and ?, "uFF0C" and "uFF1B"    *)
(* the fullwidth comma and semicolon.                                      *)
(***************************************************************************)
\* str.isspace: what str.strip() removes and str.split() splits on
Spaces == {" ", "\t", "\n"}

IsSpace(c) == c \in Spaces

\* the character class [.!?u3002uFF01uFF1F] of re.split in QualityMetrics
SentenceEnds == {".", "!", "?", "u3002", "uFF01", "uFF1F"}

\* the character class of re.findall in calculate_readability
Punctuation ==
    {".", "!", "?", "u3002", "uFF01", "uFF1F", ",", "uFF0C", ";", "uFF1B", ":"}

IsPunctuation(c) == c \in Punctuation

\* str.lower() on one character
LowerChar(c) == IF c = "A" THEN "a" ELSE IF c = "B" THEN "b" ELSE c

Lower(s) == [i \in DOMAIN s |-> LowerChar(s[i])]

Max(a, b) == IF a >= b THEN a ELSE b

Min(a, b) == IF a <= b THEN a ELSE b

\* `not text` alone, without `not text.strip()`
IsEmpty(s) == s = <<>>

\* not text.strip(): the text is empty or all whitespace
IsBlank(s) == \A i \in DOMAIN s : IsSpace(s[i])

\* the maximal runs <<first, last>> of characters of s that are not in the
\* set seps of separators
Runs(s, seps) ==
    LET starts == { i \in DOMAIN s :
                      s[i] \notin seps /\ (i = 1 \/ s[i - 1] \in seps) }
        end(i) == CHOOSE j \in i..Len(s) :
                    /\ \A k \in i..j : s[k] \notin seps
                    /\ (j = Len(s) \/ s[j + 1] \in seps)
    IN  { <<i, end(i)>> : i \in starts }

\* text.split(): the words, as a bag would lose nothing the scorers read:
\* they read the number of words and the set of words
SplitCount(s) == Cardinality(Runs(s, Spaces))

SplitSet(s) == { SubSeq(s, r[1], r[2]) : r \in Runs(s, Spaces) }

\* the pieces of re.split(sentence ends, text) that are not blank
Sentences(s) ==
    { r \in Runs(s, SentenceEnds) : \E k \in r[1]..r[2] : ~IsSpace(s[k]) }

\* sum(len(s.split()) for s in sentences)
SentenceWordCount(s) == Cardinality(Runs(s, Spaces \cup SentenceEnds))

\* len(re.findall(punctuation, text))
PunctuationCount(s) == Cardinality({ i \in DOMAIN s : IsPunctuation(s[i]) })

\* set(re.findall(r"\b\w+\b", text.lower())): of the characters of the
\* texts, \w matches all but the whitespace and the punctuation
WordTokens(s) ==
    LET l == Lower(s)
    IN  { SubSeq(l, r[1], r[2]) : r \in Runs(l, Spaces \cup Punctuation) }

\* w in text
Contains(s, w) ==
    \E i \in 1..(Len(s) - Len(w) + 1) : SubSeq(s, i, i + Len(w) - 1) = w

\* text.strip().endswith(w) for a one-character w
StripEndsWith(s, cs) ==
    /\ ~IsBlank(s)
    /\ LET last == CHOOSE i \in DOMAIN s :
                     /\ ~IsSpace(s[i])
                     /\ \A k \in (i + 1)..Len(s) : IsSpace(s[k])
       IN  s[last] \in cs

RECURSIVE Gcd(_, _)
Gcd(a, b) == IF b = 0 THEN a ELSE Gcd(b, a % b)

\* the rational n / d in lowest terms
Rational(n, d) == LET g == Gcd(n, d) IN <<n \div g, d \div g>>

RAdd(x, y) == Rational(x[1] * y[2] + y[1] * x[2], x[2] * y[2])

RLess(x, y) == x[1] * y[2] < y[1] * x[2]

\* round(n / d, 0) of a rational n / d >= 0, a tie going to the even neighbour
RoundDiv(n, d) ==
    LET q == n \div d
        r == n % d
    IN  IF 2 * r < d THEN q
        ELSE IF 2 * r > d THEN q + 1
        ELSE IF q % 2 = 0 THEN q ELSE q + 1

(***************************************************************************)
(* QualityMetrics (batch_processor.py): four scores in thousandths.        *)
(***************************************************************************)
\* the list `connectors` of calculate_coherence
Connectors ==
    { <<"u56E0", "u6B64">>, <<"u6240", "u4EE5">>, <<"u4F46", "u662F">>,
      <<"u7136", "u800C">>, <<"u6B64", "u5916">>, <<"u53E6", "u5916">>,
      <<"u9996", "u5148">>, <<"u5176", "u6B21">>, <<"u6700", "u5F8C">>,
      <<"u7E3D", "u4E4B">> }

\* the list of endings of calculate_completeness
Endings ==
    { <<"u7E3D", "u7D50">>, <<"u7D50", "u8AD6">>, <<"u7D9C", "u4E0A">>,
      <<"u6700", "u5F8C">>, <<"u3002">>, <<"uFF01">> }

calculate_readability(text) ==
    IF IsBlank(text) THEN 0
    ELSE LET S == Cardinality(Sentences(text))
         IN  IF S = 0 THEN 0
             ELSE LET W  == SentenceWordCount(text)
                      Wt == Max(SplitCount(text), 1)
                      P  == PunctuationCount(text)
                      \* max(0, min(1, 1 - (W/S - 15) / 30)) = a / (30 * S)
                      a  == Max(0, Min(30 * S, 45 * S - W))
                      \* min(P / Wt * 10, 1) = b / Wt
                      b  == Min(10 * P, Wt)
                 IN  RoundDiv(700 * a * Wt + 300 * b * 30 * S, 30 * S * Wt)

calculate_coherence(text) ==
    IF IsBlank(text) THEN 0
    ELSE LET S == Cardinality(Sentences(text))
         IN  IF S < 2 THEN 500
             ELSE LET usage == Cardinality({ c \in Connectors : Contains(text, c) })
                      \* min(usage / max(S * 0.3, 1), 1) = cn / cd
                      cd == Max(3 * S, 10)
                      cn == Min(10 * usage, cd)
                      words  == SplitCount(text)
                      unique == Cardinality(SplitSet(text))
                      wd == Max(words, 1)
                 IN  RoundDiv(600 * cn * wd + 400 * unique * cd, cd * wd)

calculate_completeness(text, prompt) ==
    IF IsBlank(text) THEN 0
    ELSE LET ld == Max(Len(prompt) * 2, 100)
             \* min(len(text) / ld, 1) = ln / ld
             ln == Min(Len(text), ld)
             has_conclusion == \E e \in Endings : Contains(text, e)
             conclusion == IF has_conclusion THEN 300 ELSE 150
         IN  RoundDiv(700 * ln + conclusion * ld, ld)

calculate_relevance(text, prompt) ==
    IF IsBlank(text) \/ IsBlank(prompt) THEN 0
    ELSE LET prompt_words == WordTokens(prompt)
             text_words == WordTokens(text)
         IN  IF prompt_words # {}
             THEN RoundDiv(1000 * Cardinality(prompt_words \cap text_words),
                           Cardinality(prompt_words))
             ELSE 0

\* TGWBatchGenerator._calculate_overall_quality
\* a scorer with hidden state: its score drifts with the number of requests
\* that were posted before the call
OverallQualityWithDrift(text, prompt) ==
    (RoundDiv(calculate_readability(text) + calculate_coherence(text)
                + calculate_completeness(text, prompt)
                + calculate_relevance(text, prompt), 4) + Len(sent)) % 1001

CalculateOverallQuality(text, prompt) ==
    RoundDiv(calculate_readability(text) + calculate_coherence(text)
               + calculate_completeness(text, prompt)
               + calculate_relevance(text, prompt), 4)

(***************************************************************************)
(* QualityController (tools/batch_processor.py): a score n / d.            *)
(***************************************************************************)
\* the set `common_words` of evaluate_quality
CommonWords ==
    { <<"u7684">>, <<"u662F">>, <<"u5728">>, <<"u6709">>, <<"t", "h", "e">>,
      <<"i", "s">>, <<"a", "r", "e">>, <<"a", "n", "d">> }

\* evaluate_quality without its two min(1.0, ...)
evaluate_quality_unclamped(text, prompt) ==
    IF IsBlank(text) THEN <<0, 1>>
    ELSE LET ld == Max(Len(prompt) * 2, 100)
             has_ending == StripEndsWith(text, {".", "!", "?", "u3002", "uFF01", "uFF1F"})
             completeness == IF has_ending THEN 10 ELSE 7
             prompt_words == SplitSet(Lower(prompt)) \ CommonWords
             text_words == SplitSet(Lower(text))
             rn == Cardinality(prompt_words \cap text_words)
             rd == Max(Cardinality(prompt_words), 1)
         IN  Rational(30 * Len(text) * rd + 3 * completeness * ld * rd + 40 * rn * ld,
                      100 * ld * rd)

evaluate_quality(text, prompt) ==
    IF IsBlank(text) THEN <<0, 1>>
    ELSE LET ld == Max(Len(prompt) * 2, 100)
             \* length_score = ln / ld
             ln == Min(Len(text), ld)
             has_ending == StripEndsWith(text, {".", "!", "?", "u3002", "uFF01", "uFF1F"})
             \* completeness_score in tenths
             completeness == IF has_ending THEN 10 ELSE 7
             prompt_words == SplitSet(Lower(prompt)) \ CommonWords
             text_words == SplitSet(Lower(text))
             \* relevance_score = rn / rd
             rn == Cardinality(prompt_words \cap text_words)
             rd == Max(Cardinality(prompt_words), 1)
             \* length * 0.3 + completeness * 0.3 + relevance * 0.4 = n / d
             n == 30 * ln * rd + 3 * completeness * ld * rd + 40 * rn * ld
             d == 100 * ld * rd
         \* min(1.0, overall_quality)
         IN  IF n > d THEN <<1, 1>> ELSE Rational(n, d)

(***************************************************************************)
(* The texts that are scored.                                              *)
(***************************************************************************)
Alphabet == {"a", "A", " ", ".", "u3002"}

PromptAlphabet == {"a", "b", " "}

\* the strings over alphabet A of length at most n
Strings(A, n) == UNION { [1..k -> A] : k \in 0..n }

\* u * n
Rep(u, n) == [i \in 1..(n * Len(u)) |-> u[((i - 1) % Len(u)) + 1]]

\* "ab<u3002> " * Reps: short sentences that end in an ideographic full stop
TextSentences == Rep(<<"a", "b", "u3002", " ">>, Reps)

\* "a " * (4 * Reps): one sentence with more than 45 words, longer than
\* the 100 characters that the length scores count
TextWords == Rep(<<"a", " ">>, 4 * Reps)

\* two sentences that hold three of the connectors
TextConnectors ==
    <<"u56E0", "u6B64", "a", ".", "u6240", "u4EE5", "u6700", "u5F8C", "a", ".">>

LongTexts == {TextSentences, TextWords, TextConnectors}

Texts == Strings(Alphabet, MaxLen) \cup LongTexts

Prompts == Strings(PromptAlphabet, MaxPromptLen)

(***************************************************************************)
(* Scoring calls: _calculate_overall_quality and evaluate_quality applied  *)
(* to one (text, prompt) pair.                                             *)
(***************************************************************************)
NoMetrics ==
    [readability |-> 0, coherence |-> 0, completeness |-> 0, relevance |-> 0,
     overall |-> 0]

ScInit ==
    \E t \in Texts, p \in Prompts :
        sc = [text |-> t, prompt |-> p, tgw_done |-> FALSE, metrics |-> NoMetrics,
              qc_done |-> FALSE, quality |-> <<0, 1>>]

ScIdle ==
    sc = [text |-> <<>>, prompt |-> <<>>, tgw_done |-> FALSE, metrics |-> NoMetrics,
          qc_done |-> FALSE, quality |-> <<0, 1>>]

\* generator._calculate_overall_quality(text, prompt), with the four scores it adds
ScoreOverall ==
    /\ mode = "score"
    /\ ~sc.tgw_done
    /\ sc' = [sc EXCEPT
                !.tgw_done = TRUE,
                !.metrics = [readability |-> calculate_readability(sc.text),
                             coherence |-> calculate_coherence(sc.text),
                             completeness |-> calculate_completeness(sc.text, sc.prompt),
                             relevance |-> calculate_relevance(sc.text, sc.prompt),
                             overall |-> CalculateOverallQuality(sc.text, sc.prompt)]]
    /\ UNCHANGED <<mode, cl, cr, frames, proc, max_concurrent, sent, saved, returned>>

\* quality_controller.evaluate_quality(text, prompt)
ScoreEvaluate ==
    /\ mode = "score"
    /\ ~sc.qc_done
    /\ sc' = [sc EXCEPT !.qc_done = TRUE,
                        !.quality = evaluate_quality(sc.text, sc.prompt)]
    /\ UNCHANGED <<mode, cl, cr, frames, proc, max_concurrent, sent, saved, returned>>

(***************************************************************************)
(* Tasks.  GenerationTask and BatchTask: id, prompt, parameters, priority, *)
(* metadata (template_name of GenerationTask is read nowhere and is left   *)
(* out).  An id is a sequence of pieces, so that a suffix can be appended. *)
(* A temperature is in tenths.  parameters is a dict: a function whose     *)
(* domain are the keys that are present.                                   *)
(***************************************************************************)
PromptAB == <<"a", "b">>

Task1 ==
    [id |-> <<"t1">>, prompt |-> <<"a", "b", " ", "c">>, priority |-> 1,
     parameters |-> [temperature |-> 7, max_new_tokens |-> 512],
     metadata |-> [n |-> 1]]

Task2 ==
    [id |-> <<"t2">>, prompt |-> <<"a", "b", "u3002">>, priority |-> 2,
     parameters |-> [temperature |-> 2, max_new_tokens |-> 512],
     metadata |-> [n |-> 2]]

Task3 ==
    [id |-> <<"t3">>, prompt |-> <<"b">>, priority |-> 1,
     parameters |-> [max_new_tokens |-> 300],
     metadata |-> [n |-> 3]]

TaskPool == {Task1, Task2, Task3}

(***************************************************************************)
(* What the completion endpoint answers to one request: a response with a  *)
(* status code and a body, or an exception of requests.post.  A body is a  *)
(* JSON value, tagged with its type; "invalid" is a body that is not JSON. *)
(* secs is the time the request took.                                      *)
(***************************************************************************)
JInvalid == [t |-> "invalid"]

JNull == [t |-> "null"]

JStr(s) == [t |-> "str", v |-> s]

JList(l) == [t |-> "list", v |-> l]

JObj(f) == [t |-> "obj", v |-> f]

EmptyDict == JObj(<<>>)

Response(status, body, secs) ==
    [kind |-> "response", status |-> status, body |-> body, error |-> <<>>,
     secs |-> secs]

RequestException(message, secs) ==
    [kind |-> "exception", status |-> 0, body |-> JInvalid, error |-> message,
     secs |-> secs]

\* an exception that the worker function does not turn into a result: one
\* that is raised while its except clause runs, as a MemoryError is when the
\* failed result cannot be built
UncaughtError(message, secs) ==
    [kind |-> "uncaught", status |-> 0, body |-> JInvalid, error |-> message,
     secs |-> secs]

\* the body {"choices": [{"text": text}]}
Completion(text) == JObj([choices |-> JList(<<JObj([text |-> JStr(text)])>>)])

Bodies ==
    { JInvalid,                                         \* not JSON
      JList(<<>>),                                      \* []
      EmptyDict,                                        \* {}
      JObj([choices |-> JList(<<>>)]),                  \* {"choices": []}
      JObj([choices |-> JNull]),                        \* {"choices": null}
      JObj([choices |-> JList(<<EmptyDict>>)]),         \* {"choices": [{}]}
      JObj([choices |-> JList(<<JObj([text |-> JNull])>>)]),
      Completion(<<>>), Completion(<<"a">>), Completion(TextSentences) }

TimeoutMessage == <<"Read timed out. (read timeout=60)">>

ConnectionMessage == <<"Connection refused">>

\* str(e) of an exception that was raised without arguments, as
\* MemoryError() is
NoMessage == <<>>

Outcomes ==
    { Response(200, b, 2) : b \in Bodies }
        \cup { Response(c, JInvalid, 1) : c \in {404, 500} }
        \cup { RequestException(TimeoutMessage, 60),
               RequestException(ConnectionMessage, 0),
               RequestException(NoMessage, 1) }

(***************************************************************************)
(* Python values and exceptions.  The evaluation of an expression ends in  *)
(* a value, [raised |-> FALSE, value |-> v], or in an exception,           *)
(* [raised |-> TRUE, error |-> str(e)].                                    *)
(***************************************************************************)
Value(v) == [raised |-> FALSE, value |-> v]

Raise(message) == [raised |-> TRUE, error |-> message]

\* the decimal digits of n >= 0, as str(n) writes them
RECURSIVE Digits(_)
Digits(n) ==
    LET d == << <<"0">>, <<"1">>, <<"2">>, <<"3">>, <<"4">>, <<"5">>, <<"6">>,
                <<"7">>, <<"8">>, <<"9">> >>[(n % 10) + 1]
    IN  IF n < 10 THEN d ELSE Digits(n \div 10) \o d

\* response.json()
ResponseJson(body) ==
    IF body.t = "invalid"
    THEN Raise(<<"Expecting value: line 1 column 1 (char 0)">>)
    ELSE Value(body)

\* d.get(key, default)
DictGet(d, key, default) ==
    IF d.t # "obj" THEN Raise(<<"object has no attribute 'get'">>)
    ELSE IF key \in DOMAIN d.v THEN Value(d.v[key])
    ELSE Value(default)

\* x[0] that gives {} for an empty list
Index0OrEmpty(x) ==
    IF x.t = "list"
    THEN IF Len(x.v) = 0 THEN Value(EmptyDict) ELSE Value(x.v[1])
    ELSE Raise(<<"object is not subscriptable">>)

\* x[0]
Index0(x) ==
    IF x.t = "list"
    THEN IF Len(x.v) = 0 THEN Raise(<<"list index out of range">>)
         ELSE Value(x.v[1])
    ELSE IF x.t = "str"
    THEN IF Len(x.v) = 0 THEN Raise(<<"string index out of range">>)
         ELSE Value(JStr(<<x.v[1]>>))
    ELSE IF x.t = "obj" THEN Raise(<<"0">>)
    ELSE Raise(<<"object is not subscriptable">>)

\* data.get("choices", [{}])[0].get("text", "") for data = response.json()
ExtractText(body) ==
    LET data == ResponseJson(body)
    IN  IF data.raised THEN data
        ELSE LET choices == DictGet(data.value, "choices", JList(<<EmptyDict>>))
             IN  IF choices.raised THEN choices
                 ELSE LET first == Index0(choices.value)
                      IN  IF first.raised THEN first
                          ELSE DictGet(first.value, "text", JStr(<<>>))

\* f"API <error>: {response.status_code}"
ApiErrorMessage(status) == <<"API ", "u932F", "u8AA4", ": ">> \o Digits(status)

(***************************************************************************)
(* TGWBatchGenerator.generate_single.                                      *)
(***************************************************************************)
GenerationResult(task, text, secs, tokens, quality, success, message) ==
    [task_id |-> task.id, prompt |-> task.prompt, generated_text |-> text,
     parameters |-> task.parameters, generation_time |-> secs,
     token_count |-> tokens, quality_score |-> quality,
     metadata |-> task.metadata, success |-> success, error_message |-> message]

\* the body of the try statement of generate_single
GenerateSingleTry(task, outcome) ==
    IF outcome.kind = "exception" THEN Raise(outcome.error)
    ELSE IF outcome.status = 200
    THEN LET text == ExtractText(outcome.body)
         IN  IF text.raised THEN text
             \* text.strip() in calculate_readability
             ELSE IF text.value.t # "str"
             THEN Raise(<<"object has no attribute 'strip'">>)
             ELSE Value(GenerationResult(task, text.value, outcome.secs,
                          SplitCount(text.value.v),
                          CalculateOverallQuality(text.value.v, task.prompt),
                          TRUE, <<>>))
    ELSE Value(GenerationResult(task, JStr(<<>>), outcome.secs, 0, 0, FALSE,
                                ApiErrorMessage(outcome.status)))

\* except Exception as e
GenerateSingleExcept(task, outcome, e) ==
    Value(GenerationResult(task, JStr(<<>>), outcome.secs, 0, 0, FALSE, e.error))

generate_single(task, outcome) ==
    LET r == GenerateSingleTry(task, outcome)
    IN  IF r.raised THEN GenerateSingleExcept(task, outcome, r) ELSE r

(***************************************************************************)
(* AdvancedBatchProcessor._process_single_task.  The quality score of a    *)
(* BatchResult is a rational <<n, d>>.                                     *)
(***************************************************************************)
BatchResult(task_id, success, text, secs, quality, message, metadata) ==
    [task_id |-> task_id, success |-> success, generated_text |-> text,
     generation_time |-> secs, quality_score |-> quality,
     error_message |-> message, metadata |-> metadata]

ProcessSingleTaskTry(task, outcome) ==
    IF outcome.kind = "exception" THEN Raise(outcome.error)
    ELSE IF outcome.status = 200
    THEN LET text == ExtractText(outcome.body)
         IN  IF text.raised THEN text
             ELSE Value(BatchResult(task.id, TRUE, text.value, outcome.secs,
                                    <<0, 1>>, <<>>, task.metadata))
    ELSE Value(BatchResult(task.id, FALSE, JStr(<<>>), outcome.secs, <<0, 1>>,
                           ApiErrorMessage(outcome.status), task.metadata))

ProcessSingleTaskExcept(task, outcome, e) ==
    Value(BatchResult(task.id, FALSE, JStr(<<>>), outcome.secs, <<0, 1>>,
                      e.error, task.metadata))

process_single_task(task, outcome) ==
    LET r == ProcessSingleTaskTry(task, outcome)
    IN  IF r.raised THEN ProcessSingleTaskExcept(task, outcome, r) ELSE r

(***************************************************************************)
(* Calls of generate_single and of _process_single_task on one task, for   *)
(* every answer of the endpoint.  returned holds what the call returned or *)
(* raised, once it has ended.                                              *)
(***************************************************************************)
ClInit ==
    \E t \in TaskPool, o \in Outcomes :
        cl = [task |-> t, outcome |-> o, generate |-> <<>>, process |-> <<>>]

ClIdle == cl = [task |-> Task1, outcome |-> Response(200, JInvalid, 0),
                generate |-> <<>>, process |-> <<>>]

CallGenerateSingle ==
    /\ mode = "single"
    /\ cl.generate = <<>>
    /\ cl' = [cl EXCEPT !.generate = <<generate_single(cl.task, cl.outcome)>>]
    /\ UNCHANGED <<mode, sc, cr, frames, proc, max_concurrent, sent, saved, returned>>

CallProcessSingleTask ==
    /\ mode = "single"
    /\ cl.process = <<>>
    /\ cl' = [cl EXCEPT !.process = <<process_single_task(cl.task, cl.outcome)>>]
    /\ UNCHANGED <<mode, sc, cr, frames, proc, max_concurrent, sent, saved, returned>>

(***************************************************************************)
(* What both orchestrators share: the answers the endpoint gives during a  *)
(* batch, the futures of the worker pool, sums.                            *)
(***************************************************************************)
\* "ab<u3002> <u56E0><u6B64> a<u3002>": two sentences and a connector
TextGood == <<"a", "b", "u3002", " ", "u56E0", "u6B64", " ", "a", "u3002">>

TextLow == <<"a">>

UncaughtMessage == <<"out of memory">>

\* how a call of generate_single in batch_generate ends: with the answer to
\* its request (a text that scores high, a text that scores low, an error
\* status) or with an exception that it does not catch
BatchOutcomes ==
    { Response(200, Completion(TextGood), 2),
      Response(200, Completion(TextLow), 3),
      Response(500, JInvalid, 1),
      UncaughtError(UncaughtMessage, 1) }

\* what future.result() gives for a call of generate_single
GenerateFutureResult(task, o) ==
    IF o.kind = "uncaught" THEN Raise(o.error) ELSE generate_single(task, o)

\* what a call of _process_single_task gives
ProcessCallResult(task, o) ==
    IF o.kind = "uncaught" THEN Raise(o.error) ELSE process_single_task(task, o)

\* the values of quality_threshold: the default, and the score of a text
Thresholds ==
    {DefaultQualityThreshold, CalculateOverallQuality(TextGood, Task1.prompt)}

\* the task lists a batch is called with: at most MaxTasks tasks of the pool
TaskLists ==
    { l \in UNION { [1..n -> TaskPool] : n \in 0..MaxTasks } :
        \A i, j \in DOMAIN l : i # j => l[i] # l[j] }

\* the list as it was passed, without tasks.sort
KeepOrder(tasks) == tasks

\* tasks.sort(key=lambda t: t.priority, reverse=True): stable, descending
RECURSIVE SortByPriority(_)
SortByPriority(tasks) ==
    IF Len(tasks) <= 1 THEN tasks
    ELSE LET rest == SortByPriority(Tail(tasks))
             t == Head(tasks)
             \* t goes before the first task of lower priority
             k == Cardinality({ i \in DOMAIN rest : rest[i].priority > t.priority })
         IN  SubSeq(rest, 1, k) \o <<t>> \o SubSeq(rest, k + 1, Len(rest))

\* the request that is posted for a task: json={"prompt": ..., **parameters}
Request(task) ==
    [task_id |-> task.id, prompt |-> task.prompt, parameters |-> task.parameters]

\* a future of executor.submit: queued, running (a worker has posted its
\* request), collected (its call has ended and as_completed has yielded it);
\* outcome is the answer its request got, completion what its call returned
NewFuture == [state |-> "queued", outcome |-> <<>>, completion |-> <<>>]

\* sum(xs)
RECURSIVE Sum(_)
Sum(xs) == IF xs = <<>> THEN 0 ELSE Head(xs) + Sum(Tail(xs))

\* [r.generation_time for r in results]
GenerationTimes(results) == [i \in DOMAIN results |-> results[i].generation_time]

\* [r.quality_score for r in results]
QualityScores(results) == [i \in DOMAIN results |-> results[i].quality_score]

\* a / b of two numbers; ZeroDivisionError when b = 0
Divide(a, b) ==
    IF b = 0 THEN Raise(<<"division by zero">>) ELSE Value(<<a, b>>)

\* statistics.mean(xs) if xs else 0
MeanOrZero(xs) == IF xs = <<>> THEN <<0, 1>> ELSE <<Sum(xs), Len(xs)>>

(***************************************************************************)
(* TGWBatchGenerator.batch_generate.  frames is its call stack: the last   *)
(* frame is the call that runs, the frames before it wait for the          *)
(* recursive call they made.                                               *)
(***************************************************************************)
\* result.quality_score > quality_threshold
ExceedsThreshold(quality, threshold) == quality > threshold

\* result.quality_score >= quality_threshold
MeetsThreshold(quality, threshold) == quality >= threshold

\* the entry of batch_generate, up to the submission of every task
NewFrame(tasks, quality_threshold, max_retries) ==
    [tasks |-> SortByPriority(tasks), quality_threshold |-> quality_threshold,
     max_retries |-> max_retries,
     futures |-> [i \in DOMAIN tasks |-> NewFuture],
     all_results |-> <<>>, successful_results |-> <<>>,
     failed_results |-> <<>>, low_quality_results |-> <<>>,
     pc |-> "loop"]

\* retry_params.get("temperature", 0.7) - 0.2, in tenths
TemperatureMinusStep(parameters) ==
    (IF "temperature" \in DOMAIN parameters THEN parameters.temperature ELSE 7) - 2

\* max(0.3, retry_params.get("temperature", 0.7) - 0.2), in tenths
RetryTemperature(parameters) ==
    Max(3, (IF "temperature" \in DOMAIN parameters
            THEN parameters.temperature ELSE 7) - 2)

\* retry_params = parameters.copy(); retry_params["temperature"] = ...
RetryParameters(parameters) ==
    [k \in DOMAIN parameters \cup {"temperature"} |->
        IF k = "temperature" THEN RetryTemperature(parameters) ELSE parameters[k]]

\* the GenerationTask built for a low-quality result
RetryTask(result) ==
    [id |-> result.task_id \o <<"_retry">>, prompt |-> result.prompt,
     priority |-> 1, parameters |-> RetryParameters(result.parameters),
     metadata |-> result.metadata]

RetryTasks(results) == [i \in DOMAIN results |-> RetryTask(results[i])]

\* the low-quality results and the failed results
LowQualityAndFailed(f) == f.low_quality_results \o f.failed_results

\* for result in low_quality_results: the results that are tried again
\* only the low-quality result that was collected first is retried
FirstLowQuality(f) == SubSeq(f.low_quality_results, 1, 1)

\* every result that succeeded is retried, the accepted ones included
AcceptedAndLowQuality(f) == f.successful_results \o f.low_quality_results

RetryCandidates(f) == f.low_quality_results

\* if low_quality_results
HasLowQuality(f) == f.low_quality_results # <<>>

\* if low_quality_results and max_retries > 0
ShouldRetryBatch(f) == f.low_quality_results # <<>> /\ f.max_retries > 0

\* the dict `results` that batch_generate builds, or the exception of its
\* "success_rate" entry
BatchResults(f) ==
    LET rate == Divide(Len(f.successful_results) * 100, Len(f.tasks))
    IN  IF rate.raised THEN rate
        ELSE Value(
          [successful |-> f.successful_results, failed |-> f.failed_results,
           low_quality |-> f.low_quality_results, all |-> f.all_results,
           summary |->
             [total_tasks |-> Len(f.tasks),
              successful_count |-> Len(f.successful_results),
              failed_count |-> Len(f.failed_results),
              low_quality_count |-> Len(f.low_quality_results),
              success_rate |-> rate.value,
              avg_quality_score |-> MeanOrZero(QualityScores(f.successful_results)),
              total_generation_time |-> Sum(GenerationTimes(f.all_results)),
              avg_generation_time |-> MeanOrZero(GenerationTimes(f.all_results))]])

Top == Len(frames)

AllCollected(f) == \A i \in DOMAIN f.futures : f.futures[i].state = "collected"

Running(f) == { i \in DOMAIN f.futures : f.futures[i].state = "running" }

\* a pool that starts every submitted call at once
AlwaysIdleWorker(f) == TRUE

\* ThreadPoolExecutor(max_workers=self.max_concurrent): a call starts only
\* when one of the max_concurrent worker threads is idle
HasIdleWorker(f) == Cardinality(Running(f)) < max_concurrent

GenIdle ==
    /\ frames = <<>>
    /\ max_concurrent = 1
    /\ sent = <<>>
    /\ saved = <<>>
    /\ returned = <<>>

GenInit ==
    /\ frames = <<>>
    /\ max_concurrent \in 1..MaxConcurrent
    /\ sent = <<>>
    /\ saved = <<>>
    /\ returned = <<>>

\* generator.batch_generate(tasks, quality_threshold, max_retries)
CallBatchGenerate ==
    /\ mode = "generate"
    /\ frames = <<>>
    /\ returned = <<>>
    /\ \E tasks \in TaskLists, th \in Thresholds, n \in 0..DefaultMaxRetries :
          frames' = <<NewFrame(tasks, th, n)>>
    /\ UNCHANGED <<mode, sc, cl, cr, proc, max_concurrent, sent, saved, returned>>

\* a worker thread of the pool takes the next queued call and posts its request
GenWorkerStart ==
    /\ mode = "generate"
    /\ frames # <<>>
    /\ LET f == frames[Top]
           queued == { i \in DOMAIN f.futures : f.futures[i].state = "queued" }
       IN  /\ queued # {}
           /\ HasIdleWorker(f)
           /\ LET i == CHOOSE k \in queued : \A j \in queued : k <= j
              IN  /\ frames' = [frames EXCEPT ![Top].futures[i].state = "running"]
                  /\ sent' = Append(sent, Request(f.tasks[i]))
    /\ UNCHANGED <<mode, sc, cl, cr, proc, max_concurrent, saved, returned>>

\* the loop body of `for i, future in enumerate(as_completed(...))` for the
\* future i, whose call has ended in the completion c
GenClassify(f, i, o, c) ==
    LET g == [f EXCEPT !.futures[i] =
                 [state |-> "collected", outcome |-> <<o>>, completion |-> <<c>>]]
    IN  IF c.raised THEN g      \* except Exception as e: print
        ELSE LET result == c.value
                 h == [g EXCEPT !.all_results = Append(@, result)]
             IN  IF result.success
                 THEN IF MeetsThreshold(result.quality_score, f.quality_threshold)
                      THEN [h EXCEPT !.successful_results = Append(@, result)]
                      ELSE [h EXCEPT !.low_quality_results = Append(@, result)]
                 ELSE [h EXCEPT !.failed_results = Append(@, result)]

\* the endpoint answers a request, generate_single ends, as_completed yields
\* the future and the loop body classifies its result
GenComplete ==
    /\ mode = "generate"
    /\ frames # <<>>
    /\ frames[Top].pc = "loop"
    /\ \E i \in Running(frames[Top]), o \in BatchOutcomes :
          frames' = [frames EXCEPT ![Top] =
                        GenClassify(frames[Top], i, o,
                                    GenerateFutureResult(frames[Top].tasks[i], o))]
    /\ UNCHANGED <<mode, sc, cl, cr, proc, max_concurrent, sent, saved, returned>>

\* the retry tasks are built and batch_generate calls itself
GenRetry ==
    /\ mode = "generate"
    /\ frames # <<>>
    /\ LET f == frames[Top]
       IN  /\ f.pc = "loop"
           /\ AllCollected(f)
           /\ ShouldRetryBatch(f)
           /\ frames' = Append([frames EXCEPT ![Top].pc = "calling"],
                               NewFrame(RetryTasks(RetryCandidates(f)),
                                        f.quality_threshold, f.max_retries - 1))
    /\ UNCHANGED <<mode, sc, cl, cr, proc, max_concurrent, sent, saved, returned>>

\* the rest of batch_generate: the results and their summary are built and
\* saved and the call returns; the call that waits for it extends its
\* successful results.  An exception leaves every call of the stack.
GenFinish ==
    /\ mode = "generate"
    /\ frames # <<>>
    /\ LET f == frames[Top]
           r == BatchResults(f)
       IN  /\ \/ f.pc = "retried"
              \/ f.pc = "loop" /\ AllCollected(f) /\ ~ShouldRetryBatch(f)
           /\ IF r.raised
              THEN \* the exception leaves every call of the stack
                   /\ frames' = <<[frames[1] EXCEPT !.pc = "raised"]>>
                   /\ returned' = <<r>>
                   /\ saved' = saved
              ELSE /\ saved' = Append(saved, r.value.summary)
                   /\ IF Top = 1
                      THEN /\ frames' = <<[f EXCEPT !.pc = "returned"]>>
                           /\ returned' = <<r>>
                      ELSE /\ frames' =
                                [SubSeq(frames, 1, Top - 1) EXCEPT
                                    ![Top - 1].successful_results =
                                        @ \o r.value.successful,
                                    ![Top - 1].pc = "retried"]
                           /\ returned' = returned
    /\ UNCHANGED <<mode, sc, cl, cr, proc, max_concurrent, sent>>

(***************************************************************************)
(* AdvancedBatchProcessor.process_batch and _handle_retries.  proc is the  *)
(* state of the call.  retry_queue holds references to the tasks of the    *)
(* list, which _handle_retries changes in place: a reference is the index  *)
(* of the task in proc.tasks.  retry_attempts are the results that         *)
(* _process_single_task returned in _handle_retries, with the task and the *)
(* answer of the endpoint.                                                 *)
(***************************************************************************)
\* QualityController.__init__: min_quality: float = 0.6
MinQuality == <<6, 10>>

\* QualityController.should_retry
should_retry(quality_score) == RLess(quality_score, MinQuality)

\* quality_score >= self.quality_controller.min_quality, in _handle_retries
\* every retry result that succeeded is kept, whatever its score
RetryAlwaysAccepted(quality_score) == TRUE

RetryAccepted(quality_score) == ~RLess(quality_score, MinQuality)

\* evaluate_quality(result.generated_text, task.prompt) on the value that
\* _process_single_task took from the body: `not text` holds of None and of
\* an empty value, and only a str has strip()
EvaluateQuality(text, prompt) ==
    IF text.t = "null" THEN Value(<<0, 1>>)
    ELSE IF text.t = "str" THEN Value(evaluate_quality(text.v, prompt))
    ELSE IF text.v = <<>> THEN Value(<<0, 1>>)
    ELSE Raise(<<"object has no attribute 'strip'">>)

\* the body {"choices": [{"text": ["a"]}]}, whose text is a list
ListTextBody ==
    JObj([choices |-> JList(<<JObj([text |-> JList(<<JStr(<<"a">>)>>)])>>)])

\* the answers to the requests of process_batch: a text that scores 0.6 or
\* more, a text that scores low, a text that is not a string, an error
\* status; or the call ends with an exception that it does not catch
ProcessOutcomes ==
    { Response(200, Completion(TextSentences), 2),
      Response(200, Completion(TextLow), 3),
      Response(200, ListTextBody, 2),
      Response(500, JInvalid, 1),
      UncaughtError(UncaughtMessage, 1) }

RECURSIVE RSum(_)
RSum(xs) == IF xs = <<>> THEN <<0, 1>> ELSE RAdd(Head(xs), RSum(Tail(xs)))

\* len([r for r in successful if r.quality_score in the band])
Count(results, band) ==
    Cardinality({ i \in DOMAIN results :
                    /\ ~RLess(results[i].quality_score, band[1])
                    /\ RLess(results[i].quality_score, band[2]) })

\* the bands [low, high) of quality_distribution; a score is at least 0
\* and at most 1
Excellent == << <<8, 10>>, <<2, 1>> >>

Good == << <<6, 10>>, <<8, 10>> >>

Acceptable == << <<4, 10>>, <<6, 10>> >>

Poor == << <<0, 1>>, <<4, 10>> >>

\* len(successful) / total_tasks * 100
SuccessRateUnguarded(successful_count, total_tasks) ==
    Divide(successful_count * 100, total_tasks)

\* len(successful) / total_tasks * 100 if total_tasks > 0 else 0
SuccessRate(successful_count, total_tasks) ==
    IF total_tasks > 0 THEN Divide(successful_count * 100, total_tasks)
    ELSE Value(<<0, 1>>)

\* _generate_summary: the averages are rounded to hundredths and thousandths
generate_summary(successful, failed) ==
    LET total_tasks == Len(successful) + Len(failed)
        rate == SuccessRate(Len(successful), total_tasks)
        quality == RSum(QualityScores(successful))
    IN  IF rate.raised THEN rate
        ELSE Value(
          [total_tasks |-> total_tasks,
           successful_count |-> Len(successful),
           failed_count |-> Len(failed),
           success_rate |-> rate.value,
           average_generation_time |->
              IF successful = <<>> THEN 0
              ELSE RoundDiv(100 * Sum(GenerationTimes(successful)), Len(successful)),
           average_quality_score |->
              IF successful = <<>> THEN 0
              ELSE RoundDiv(1000 * quality[1], quality[2] * Len(successful)),
           quality_distribution |->
              IF successful = <<>> THEN <<>>
              ELSE [excellent |-> Count(successful, Excellent),
                    good |-> Count(successful, Good),
                    acceptable |-> Count(successful, Acceptable),
                    poor |-> Count(successful, Poor)]])

NewProc(tasks, max_retries, pc) ==
    [tasks |-> SortByPriority(tasks), max_retries |-> max_retries,
     futures |-> [i \in DOMAIN tasks |-> NewFuture],
     successful_results |-> <<>>, failed_results |-> <<>>, retry_queue |-> <<>>,
     retry_results |-> <<>>, retry_attempts |-> <<>>, save |-> <<>>, pc |-> pc]

ProcIdle == proc = NewProc(<<>>, 0, "idle")

\* processor.process_batch(tasks), up to the submission of every task
CallProcessBatch ==
    /\ mode = "process"
    /\ proc.pc = "idle"
    /\ \E tasks \in TaskLists, n \in 0..DefaultMaxRetries :
          proc' = NewProc(tasks, n, "loop")
    /\ UNCHANGED <<mode, sc, cl, cr, frames, max_concurrent, sent, saved, returned>>

\* a worker thread of the pool takes the next queued call and posts its request
ProcWorkerStart ==
    /\ mode = "process"
    /\ proc.pc = "loop"
    /\ LET queued == { i \in DOMAIN proc.futures : proc.futures[i].state = "queued" }
       IN  /\ queued # {}
           /\ HasIdleWorker(proc)
           /\ LET i == CHOOSE k \in queued : \A j \in queued : k <= j
              IN  /\ proc' = [proc EXCEPT !.futures[i].state = "running"]
                  /\ sent' = Append(sent, Request(proc.tasks[i]))
    /\ UNCHANGED <<mode, sc, cl, cr, frames, max_concurrent, saved, returned>>

\* the BatchResult of the except clause of the loop of process_batch
ExceptionResult(task, e) ==
    BatchResult(task.id, FALSE, JStr(<<>>), 0, <<0, 1>>, e.error, <<>>)

\* the loop body of `for future in as_completed(future_to_task)` for the
\* future i, whose call has ended in the completion c
ProcClassify(p, i, o, c) ==
    LET task == p.tasks[i]
        g == [p EXCEPT !.futures[i] =
                 [state |-> "collected", outcome |-> <<o>>, completion |-> <<c>>]]
    IN  IF c.raised
        THEN [g EXCEPT !.failed_results = Append(@, ExceptionResult(task, c))]
        ELSE IF c.value.success
        THEN LET quality == EvaluateQuality(c.value.generated_text, task.prompt)
             IN  IF quality.raised
                 THEN [g EXCEPT !.failed_results =
                                    Append(@, ExceptionResult(task, quality))]
                 ELSE LET result == [c.value EXCEPT !.quality_score = quality.value]
                          \* result.quality_score = quality_score
                          h == [g EXCEPT !.futures[i].completion = <<Value(result)>>]
                      IN  IF should_retry(quality.value)
                          THEN [h EXCEPT !.retry_queue = Append(@, i)]
                          ELSE [h EXCEPT !.successful_results = Append(@, result)]
        ELSE [g EXCEPT !.failed_results = Append(@, c.value)]

\* the endpoint answers a request, _process_single_task ends, as_completed
\* yields the future and the loop body classifies its result
ProcComplete ==
    /\ mode = "process"
    /\ proc.pc = "loop"
    /\ \E i \in Running(proc), o \in ProcessOutcomes :
          proc' = ProcClassify(proc, i, o, ProcessCallResult(proc.tasks[i], o))
    /\ UNCHANGED <<mode, sc, cl, cr, frames, max_concurrent, sent, saved, returned>>

\* if retry_queue and self.max_retries > 0
ShouldHandleRetries(p) == p.retry_queue # <<>> /\ p.max_retries > 0

\* task.parameters["temperature"] = max(0.3, ...), on the task itself
LowerTemperature(task) ==
    [task EXCEPT !.parameters = RetryParameters(task.parameters)]

\* one iteration of the loop of _handle_retries: the temperature of the task
\* is lowered, its request is posted and answered, its result is scored.
\* An exception of _process_single_task or of evaluate_quality leaves
\* _handle_retries and process_batch.
ProcRetryStep ==
    /\ mode = "process"
    /\ \/ proc.pc = "loop" /\ AllCollected(proc) /\ ShouldHandleRetries(proc)
       \/ proc.pc = "retries"
    /\ Len(proc.retry_attempts) < Len(proc.retry_queue)
    /\ \E o \in ProcessOutcomes :
          LET i == proc.retry_queue[Len(proc.retry_attempts) + 1]
              task == LowerTemperature(proc.tasks[i])
              c == ProcessCallResult(task, o)
              quality == IF c.raised THEN c
                         ELSE IF c.value.success
                         THEN EvaluateQuality(c.value.generated_text, task.prompt)
                         ELSE Value(c.value.quality_score)
              result == IF quality.raised THEN c.value
                        ELSE [c.value EXCEPT !.quality_score = quality.value]
              p == [proc EXCEPT
                      !.tasks[i] = task,
                      !.retry_attempts =
                          Append(@, [task |-> i, outcome |-> o, result |-> result]),
                      !.pc = "retries"]
          IN  /\ sent' = Append(sent, Request(task))
              /\ IF c.raised
                 THEN /\ proc' = [proc EXCEPT !.tasks[i] = task, !.pc = "raised"]
                      /\ returned' = <<c>>
                 ELSE IF quality.raised
                 THEN /\ proc' = [p EXCEPT !.pc = "raised"]
                      /\ returned' = <<quality>>
                 ELSE /\ returned' = returned
                      /\ IF result.success /\ RetryAccepted(result.quality_score)
                         THEN proc' = [p EXCEPT !.retry_results = Append(@, result)]
                         ELSE proc' = p
    /\ UNCHANGED <<mode, sc, cl, cr, frames, max_concurrent, saved>>

\* time.strftime("%Y-%m-%d %H:%M:%S") at the return of process_batch
Timestamp == <<"2024-01-15 10:00:00">>

\* the dict that process_batch returns
ProcessResults(p) ==
    LET successful == p.successful_results \o p.retry_results
        summary == generate_summary(successful, p.failed_results)
    IN  IF summary.raised THEN summary
        ELSE Value([successful_results |-> successful,
                    failed_results |-> p.failed_results,
                    summary |-> summary.value,
                    timestamp |-> Timestamp])

\* the rest of process_batch: successful_results.extend(retry_results), the
\* summary, the return
ProcFinish ==
    /\ mode = "process"
    /\ \/ proc.pc = "loop" /\ AllCollected(proc) /\ ~ShouldHandleRetries(proc)
       \/ proc.pc = "retries" /\ Len(proc.retry_attempts) = Len(proc.retry_queue)
    /\ LET r == ProcessResults(proc)
       IN  /\ returned' = <<r>>
           /\ proc' = IF r.raised THEN [proc EXCEPT !.pc = "raised"]
                      ELSE [proc EXCEPT !.successful_results = r.value.successful_results,
                                        !.pc = "returned"]
    /\ UNCHANGED <<mode, sc, cl, cr, frames, max_concurrent, sent, saved>>

(***************************************************************************)
(* TGWBatchGenerator.create_task and AdvancedBatchProcessor.create_tasks.  *)
(* cr.tasks are the tasks a caller has created for one batch, in the order *)
(* of their creation (create_content_variations and main of                *)
(* batch_processor.py collect them so), and cr.clock is what time.time()   *)
(* returns.                                                                *)
(***************************************************************************)
\* hashlib.md5(text.encode()).hexdigest()[:8].  The digest is a function of
\* the text; it stands here for itself, so that two texts never collide.
Md5Hex8(text) == <<"md5">> \o text

\* f"{n:03d}"
ZeroPad3(n) ==
    IF n < 10 THEN <<"0", "0">> \o Digits(n)
    ELSE IF n < 100 THEN <<"0">> \o Digits(n)
    ELSE Digits(n)

\* the default parameters of create_task, in tenths where the code has floats
CreateTaskDefaults ==
    [temperature |-> 7, top_p |-> 9, max_new_tokens |-> 512,
     repetition_penalty |-> 11]

\* the default parameters of create_tasks
CreateTasksDefaults == [temperature |-> 7, top_p |-> 9, max_new_tokens |-> 512]

\* task_id = hashlib.md5(f"{prompt}_{time.time()}".encode()).hexdigest()[:8]
TaskId(prompt, now) == Md5Hex8(prompt \o <<"_">> \o Digits(now))

\* create_task(prompt, parameters, priority=priority, metadata=metadata) at
\* the clock reading now; an argument that is None is the empty sequence
create_task(prompt, parameters, priority, metadata, now) ==
    [id |-> TaskId(prompt, now),
     prompt |-> prompt,
     parameters |-> IF parameters = <<>> THEN CreateTaskDefaults
                    ELSE parameters[1],
     priority |-> priority,
     metadata |-> IF metadata = <<>> THEN <<>> ELSE metadata[1]]

\* create_tasks(prompts, parameters, metadata_list) at the clock reading now
create_tasks(prompts, parameters, metadata_list, now) ==
    [i \in DOMAIN prompts |->
        [id |-> <<"task_">> \o ZeroPad3(i) \o <<"_">> \o Digits(now),
         prompt |-> prompts[i],
         parameters |-> IF parameters = <<>> THEN CreateTasksDefaults
                        ELSE parameters[1],
         metadata |-> IF metadata_list # <<>> /\ i <= Len(metadata_list)
                      THEN metadata_list[i] ELSE <<>>,
         priority |-> 1]]

\* the prompts, parameters and metadata that callers pass
CreatePrompts == { <<"a">>, <<"b">> }

CreateParameters == { <<>>, <<[temperature |-> 9]>> }

VariationMetadata == << <<"variation_type", <<"v">> >> >>

\* parameters itself, in place of a copy of it
SameMapping(source, fresh) == source

\* parameters.copy(): a new mapping object, with the items of the source
Copy(source, fresh) == fresh

\* A mapping is an object of cr.heap, named by its index.  cr.made has, for
\* every task of cr.tasks, the function that built it, the mapping object
\* that is its parameters and the one it was built from; cr.callers are the mappings that callers hold;
\* cr.last is the latest call of create_tasks.
NewCr(now) ==
    [tasks |-> <<>>, clock |-> now, heap |-> <<>>, made |-> <<>>,
     callers |-> {}, last |-> <<>>]

CrIdle == cr = NewCr(0)

CrInit == \E now \in 0..MaxClock : cr = NewCr(now)

\* the mapping that the function works on: the caller's, or the defaults it
\* builds when the caller passed None
SourceMapping(parameters, defaults) ==
    IF parameters = <<>> THEN defaults ELSE parameters[1]

\* generator.create_task(...), its task is appended to the batch; the task
\* holds the mapping that was passed, not a copy
CallCreateTask ==
    /\ mode = "create"
    /\ Len(cr.tasks) < MaxCreated
    /\ \E prompt \in CreatePrompts, parameters \in CreateParameters :
          LET source == Len(cr.heap) + 1
          IN  cr' = [cr EXCEPT
                  !.tasks = Append(@, create_task(prompt, parameters, 1,
                                                  <<VariationMetadata>>, cr.clock)),
                  !.heap = Append(@, SourceMapping(parameters, CreateTaskDefaults)),
                  !.made = Append(@, [by |-> "create_task", ref |-> source,
                                      source |-> source]),
                  !.callers = IF parameters = <<>> THEN @ ELSE @ \cup {source}]
    /\ UNCHANGED <<mode, sc, cl, frames, proc, max_concurrent, sent, saved, returned>>

\* processor.create_tasks(...), its tasks are added to the batch; every task
\* holds parameters.copy()
CallCreateTasks ==
    /\ mode = "create"
    /\ \E n \in 1..2 : \E prompts \in [1..n -> CreatePrompts],
                         parameters \in CreateParameters :
          LET source == Len(cr.heap) + 1
              metadata_list == <<VariationMetadata>>
              mapping == SourceMapping(parameters, CreateTasksDefaults)
          IN  /\ Len(cr.tasks) + n <= MaxCreated
              /\ cr' = [cr EXCEPT
                    !.tasks = @ \o create_tasks(prompts, parameters,
                                                metadata_list, cr.clock),
                    !.heap = Append(@, mapping) \o [i \in 1..n |-> mapping],
                    !.made = @ \o [i \in 1..n |->
                                     [by |-> "create_tasks",
                                      ref |-> Copy(source, source + i),
                                      source |-> source]],
                    !.callers = IF parameters = <<>> THEN @ ELSE @ \cup {source},
                    !.last = <<[prompts |-> prompts, parameters |-> parameters,
                                first |-> Len(cr.tasks), source |-> source]>>]
    /\ UNCHANGED <<mode, sc, cl, frames, proc, max_concurrent, sent, saved, returned>>

\* task.parameters["temperature"] = max(0.3, ... - 0.2) of _handle_retries on
\* a task of create_tasks, once for a task: the mapping object of the task is
\* changed, and with it the parameters of every task that holds the object
ChangeParameters ==
    /\ mode = "create"
    /\ \E i \in DOMAIN cr.tasks :
          LET ref == cr.made[i].ref
              changed == RetryParameters(cr.heap[ref])
          IN  /\ cr.made[i].by = "create_tasks"
              /\ changed # cr.heap[ref]
              /\ cr.heap[ref] = cr.heap[cr.made[i].source]
              /\ cr' = [cr EXCEPT
                    !.heap[ref] = changed,
                    !.tasks = [j \in DOMAIN cr.tasks |->
                                 IF cr.made[j].ref = ref
                                 THEN [cr.tasks[j] EXCEPT !.parameters = changed]
                                 ELSE cr.tasks[j]]]
    /\ UNCHANGED <<mode, sc, cl, frames, proc, max_concurrent, sent, saved, returned>>

\* time passes: the next time.time() returns a later value
ClockTick ==
    /\ mode = "create"
    /\ cr.clock < MaxClock
    /\ cr' = [cr EXCEPT !.clock = @ + 1]
    /\ UNCHANGED <<mode, sc, cl, frames, proc, max_concurrent, sent, saved, returned>>

(***************************************************************************)
(* save_results of tools/batch_processor.py.  The def statement stands at  *)
(* the left margin, after the body of the class AdvancedBatchProcessor: it *)
(* defines a function of the module that takes self as its first argument, *)
(* not a method of the class.  In process mode saved holds the documents   *)
(* of the files written, and proc.save how save_results was called and how *)
(* the call ended.                                                         *)
(***************************************************************************)
\* the functions that the class statement of AdvancedBatchProcessor defines
ProcessorMethods ==
    {"__init__", "create_tasks", "process_batch", "_process_single_task",
     "_handle_retries", "_generate_summary"}

\* the functions that the module defines
ModuleFunctions == {"save_results"}

\* processor.name: the attribute of an instance of AdvancedBatchProcessor
ProcessorAttribute(name) ==
    IF name \in ProcessorMethods THEN Value(name)
    ELSE Raise(<<"'AdvancedBatchProcessor' object has no attribute '", name, "'">>)

\* asdict(r): the dict of the fields of a dataclass instance
AsDict(r) == JObj(r)

\* json.dump(document, f, ensure_ascii=False, indent=2): the text of the file,
\* as the JSON value it denotes
JsonDump(document) == JObj(document)

\* json.load(f)
JsonLoad(text) == text.v

\* the body of save_results: the document that is written to output_path
save_results(results) ==
    Value(JsonDump(
        [successful_results |->
            JList([i \in DOMAIN results.successful_results |->
                     AsDict(results.successful_results[i])]),
         failed_results |->
            JList([i \in DOMAIN results.failed_results |->
                     AsDict(results.failed_results[i])]),
         summary |-> results.summary,
         timestamp |-> results.timestamp]))

\* processor.save_results(results, path), or save_results(processor,
\* results, path), for the results that process_batch has returned
CallSaveResults ==
    /\ mode = "process"
    /\ proc.pc = "returned"
    /\ proc.save = <<>>
    /\ \E how \in {"attribute", "function"} :
          LET found == IF how = "attribute" THEN ProcessorAttribute("save_results")
                       ELSE Value("save_results")
              c == IF found.raised THEN found
                   ELSE save_results(returned[1].value)
          IN  /\ proc' = [proc EXCEPT !.save = <<[how |-> how, completion |-> c]>>]
              /\ saved' = IF c.raised THEN saved ELSE Append(saved, c.value)
    /\ UNCHANGED <<mode, sc, cl, cr, frames, max_concurrent, sent, returned>>

vars == <<mode, sc, cl, cr, frames, proc, max_concurrent, sent, saved, returned>>

Init ==
    \/ mode = "score" /\ ScInit /\ ClIdle /\ CrIdle /\ GenIdle /\ ProcIdle
    \/ mode = "single" /\ ScIdle /\ ClInit /\ CrIdle /\ GenIdle /\ ProcIdle
    \/ mode = "generate" /\ ScIdle /\ ClIdle /\ CrIdle /\ GenInit /\ ProcIdle
    \/ mode = "process" /\ ScIdle /\ ClIdle /\ CrIdle /\ GenInit /\ ProcIdle
    \/ mode = "create" /\ ScIdle /\ ClIdle /\ CrInit /\ GenIdle /\ ProcIdle

Next ==
    \/ ScoreOverall
    \/ ScoreEvaluate
    \/ CallGenerateSingle
    \/ CallProcessSingleTask
    \/ CallBatchGenerate
    \/ GenWorkerStart
    \/ GenComplete
    \/ GenRetry
    \/ GenFinish
    \/ CallProcessBatch
    \/ ProcWorkerStart
    \/ ProcComplete
    \/ ProcRetryStep
    \/ ProcFinish
    \/ CallCreateTask
    \/ CallCreateTasks
    \/ ClockTick
    \/ ChangeParameters
    \/ CallSaveResults

Spec == Init /\ [][Next]_vars

\* the runs that call batch_generate or process_batch
BatchInit == Init /\ mode \in {"generate", "process"}

BatchNext ==
    \/ CallBatchGenerate
    \/ GenWorkerStart
    \/ GenComplete
    \/ GenRetry
    \/ GenFinish
    \/ CallProcessBatch
    \/ ProcWorkerStart
    \/ ProcComplete
    \/ ProcRetryStep
    \/ ProcFinish

\* every request is answered or times out (timeout=60), the worker threads
\* and the calling thread keep running: a step that can be taken is taken
FairSpec == BatchInit /\ [][BatchNext]_vars /\ WF_vars(BatchNext)

(***************************************************************************)
(* Properties.                                                             *)
(***************************************************************************)
InSeq(x, xs) == \E i \in DOMAIN xs : xs[i] = x

\* a score n / d lies in [0, 1]
InUnit(q) == q[2] > 0 /\ 0 <= q[1] /\ q[1] <= q[2]

Thousandth(q) == q \in 0..1000

\* the results that a call of process_batch holds
ProcResults ==
    { proc.successful_results[i] : i \in DOMAIN proc.successful_results }
      \cup { proc.failed_results[i] : i \in DOMAIN proc.failed_results }
      \cup { proc.retry_results[i] : i \in DOMAIN proc.retry_results }
      \cup { proc.retry_attempts[i].result : i \in DOMAIN proc.retry_attempts }
      \cup { proc.futures[i].completion[1].value :
               i \in { j \in DOMAIN proc.futures :
                         /\ proc.futures[j].state = "collected"
                         /\ ~proc.futures[j].completion[1].raised } }

\* C1: every overall score of _calculate_overall_quality and of
\* evaluate_quality lies in [0, 1], and so does the quality_score of every
\* result of generate_single, _process_single_task, batch_generate and
\* process_batch.
QualityScoreInUnitInterval ==
    /\ sc.tgw_done => Thousandth(sc.metrics.overall)
    /\ sc.qc_done => InUnit(sc.quality)
    /\ \A k \in DOMAIN cl.generate : Thousandth(cl.generate[k].value.quality_score)
    /\ \A k \in DOMAIN cl.process : InUnit(cl.process[k].value.quality_score)
    /\ \A k \in DOMAIN frames :
          /\ \A i \in DOMAIN frames[k].all_results :
                Thousandth(frames[k].all_results[i].quality_score)
          /\ \A i \in DOMAIN frames[k].successful_results :
                Thousandth(frames[k].successful_results[i].quality_score)
    /\ \A r \in ProcResults : InUnit(r.quality_score)

\* a text of 200 characters has been scored by both scorers against a prompt
\* it holds every word of
LongTextScored ==
    /\ sc.tgw_done /\ sc.qc_done
    /\ sc.text = TextWords /\ sc.prompt = <<"a">>
    /\ sc.quality = <<91, 100>>
    /\ sc.metrics.readability = 0 /\ sc.metrics.relevance = 1000

\* C2: a generated text that is empty or holds only whitespace scores
\* exactly 0 in evaluate_quality and in _calculate_overall_quality, where
\* each of the four scores is 0, whatever the prompt.
BlankTextScoresZero ==
    (\A i \in DOMAIN sc.text : sc.text[i] = " ") =>
        /\ sc.tgw_done =>
              /\ sc.metrics.overall = 0
              /\ sc.metrics.readability = 0 /\ sc.metrics.coherence = 0
              /\ sc.metrics.completeness = 0 /\ sc.metrics.relevance = 0
        /\ sc.qc_done => sc.quality[1] = 0

\* a text of two spaces has been scored by both scorers against a prompt
WhitespaceScored ==
    /\ sc.tgw_done /\ sc.qc_done
    /\ sc.text = <<" ", " ">> /\ sc.prompt = <<"a", "b">>

\* C3: in batch_generate and in process_batch a result with success = true
\* and a score at or above the threshold is in the list of successful
\* results of the call, and neither in its failed list nor in its low-quality
\* list or retry queue; an accepted result of _handle_retries is in the
\* successful results that process_batch returns.
AcceptedResultPlacement ==
    /\ \A k \in DOMAIN frames : \A i \in DOMAIN frames[k].futures :
          LET f == frames[k]
              r == f.futures[i].completion[1].value
          IN  (/\ f.futures[i].state = "collected"
               /\ ~f.futures[i].completion[1].raised
               /\ r.success
               /\ r.quality_score >= f.quality_threshold) =>
                  /\ InSeq(r, f.successful_results)
                  /\ ~InSeq(r, f.failed_results)
                  /\ ~InSeq(r, f.low_quality_results)
    /\ \A i \in DOMAIN proc.futures :
          LET r == proc.futures[i].completion[1].value
          IN  (/\ proc.futures[i].state = "collected"
               /\ ~proc.futures[i].completion[1].raised
               /\ r.success
               /\ r.quality_score[1] * 10 >= 6 * r.quality_score[2]) =>
                  /\ InSeq(r, proc.successful_results)
                  /\ ~InSeq(r, proc.failed_results)
                  /\ ~InSeq(i, proc.retry_queue)
    /\ \A k \in DOMAIN proc.retry_attempts :
          LET r == proc.retry_attempts[k].result
          IN  (r.success /\ r.quality_score[1] * 10 >= 6 * r.quality_score[2]) =>
                  /\ InSeq(r, proc.retry_results)
                  /\ ~InSeq(r, proc.failed_results)
                  /\ proc.pc = "returned" =>
                        InSeq(r, returned[1].value.successful_results)

\* batch_generate has returned a result whose score is equal to the
\* threshold of the call, among its successful results
ScoreEqualToThresholdAccepted ==
    /\ mode = "generate"
    /\ returned # <<>> /\ ~returned[1].raised
    /\ \E i \in DOMAIN returned[1].value.successful :
          /\ returned[1].value.successful[i].quality_score
               = frames[1].quality_threshold
          /\ returned[1].value.successful[i].success

\* the number of requests that were posted for the task of an id and for
\* its retry tasks
Attempts(id) ==
    Cardinality({ k \in DOMAIN sent : sent[k].task_id[1] = id[1] })

ReportedIds(lists) ==
    UNION { { lists[j][i].task_id : i \in DOMAIN lists[j] } : j \in DOMAIN lists }

\* C5: when an orchestrator returns, a task of the batch whose attempts all
\* succeeded with a score below the threshold is in one of the result lists
\* of the returned outcome.
LowQualityTaskReported ==
    /\ (mode = "generate" /\ returned # <<>> /\ ~returned[1].raised) =>
          \A i \in DOMAIN frames[1].tasks :
             LET r == frames[1].futures[i].completion[1].value
             IN  (/\ ~frames[1].futures[i].completion[1].raised
                  /\ r.success
                  /\ r.quality_score < frames[1].quality_threshold) =>
                    frames[1].tasks[i].id \in
                       ReportedIds(<<returned[1].value.successful,
                                     returned[1].value.failed,
                                     returned[1].value.low_quality>>)
    /\ (mode = "process" /\ proc.pc = "returned") =>
          \A i \in DOMAIN proc.tasks :
             LET r == proc.futures[i].completion[1].value
                 retries == { k \in DOMAIN proc.retry_attempts :
                                proc.retry_attempts[k].task = i }
             IN  (/\ ~proc.futures[i].completion[1].raised
                  /\ r.success /\ RLess(r.quality_score, <<6, 10>>)
                  /\ \A k \in retries :
                        /\ proc.retry_attempts[k].result.success
                        /\ RLess(proc.retry_attempts[k].result.quality_score,
                                 <<6, 10>>)) =>
                    proc.tasks[i].id \in
                       ReportedIds(<<returned[1].value.successful_results,
                                     returned[1].value.failed_results>>)

\* C6: process_batch of an empty task list raises nothing and returns a
\* summary whose total_tasks, successful_count, failed_count and
\* success_rate are 0.
EmptyProcessBatchSummary ==
    (mode = "process" /\ proc.tasks = <<>> /\ proc.pc \in {"returned", "raised"}) =>
        /\ ~returned[1].raised
        /\ returned[1].value.summary.total_tasks = 0
        /\ returned[1].value.summary.successful_count = 0
        /\ returned[1].value.summary.failed_count = 0
        /\ returned[1].value.summary.success_rate[1] = 0

\* process_batch([]) has returned
EmptyProcessBatchReturned ==
    /\ mode = "process"
    /\ proc.tasks = <<>> /\ proc.pc = "returned"
    /\ returned # <<>> /\ sent = <<>>

\* C7: batch_generate of an empty task list raises nothing, divides by
\* nothing that is zero, and returns a summary whose counts are 0.
EmptyBatchGenerateSummary ==
    \A k \in DOMAIN frames :
        (mode = "generate" /\ frames[k].tasks = <<>>
           /\ frames[k].pc \in {"returned", "raised"}) =>
            /\ ~returned[1].raised
            /\ returned[1].value.summary.total_tasks = 0
            /\ returned[1].value.summary.successful_count = 0
            /\ returned[1].value.summary.failed_count = 0
            /\ returned[1].value.summary.low_quality_count = 0

\* rate = count / total * 100, which has no value when total = 0
IsRate(rate, count, total) ==
    total # 0 /\ rate[1] * total = count * 100 * rate[2]

\* C8: for a batch that is not empty, the summary that batch_generate and
\* process_batch return has success_rate = successful_count / total_tasks *
\* 100, for the length of the returned list of successful results and the
\* total_tasks of the summary.
SuccessRateIsRatio ==
    /\ (mode = "generate" /\ returned # <<>> /\ ~returned[1].raised
          /\ frames[1].tasks # <<>>) =>
          /\ returned[1].value.summary.successful_count
               = Len(returned[1].value.successful)
          /\ IsRate(returned[1].value.summary.success_rate,
                    Len(returned[1].value.successful),
                    returned[1].value.summary.total_tasks)
    /\ (mode = "process" /\ proc.pc = "returned" /\ proc.tasks # <<>>) =>
          /\ returned[1].value.summary.successful_count
               = Len(returned[1].value.successful_results)
          /\ IsRate(returned[1].value.summary.success_rate,
                    Len(returned[1].value.successful_results),
                    returned[1].value.summary.total_tasks)

\* the result of a request that was answered with a status other than 200
IsStatusFailure(r, outcome, zero) ==
    /\ ~r.success
    /\ r.generated_text = JStr(<<>>)
    /\ r.quality_score = zero
    /\ Contains(r.error_message, Digits(outcome.status))

IsErrorStatus(outcome) == outcome.kind = "response" /\ outcome.status # 200

\* C9: a request that is answered with a status other than 200 gives a
\* result with success = false, an empty text, the score 0 and an error
\* message that holds the status code, and the result is in the failed list
\* of the call.
ErrorStatusResultFailed ==
    /\ IsErrorStatus(cl.outcome) =>
          /\ \A k \in DOMAIN cl.generate :
                /\ ~cl.generate[k].raised
                /\ IsStatusFailure(cl.generate[k].value, cl.outcome, 0)
          /\ \A k \in DOMAIN cl.process :
                /\ ~cl.process[k].raised
                /\ IsStatusFailure(cl.process[k].value, cl.outcome, <<0, 1>>)
    /\ \A k \in DOMAIN frames : \A i \in DOMAIN frames[k].futures :
          LET u == frames[k].futures[i]
          IN  (u.state = "collected" /\ IsErrorStatus(u.outcome[1])) =>
                 /\ ~u.completion[1].raised
                 /\ IsStatusFailure(u.completion[1].value, u.outcome[1], 0)
                 /\ InSeq(u.completion[1].value, frames[k].failed_results)
    /\ \A i \in DOMAIN proc.futures :
          LET u == proc.futures[i]
          IN  (u.state = "collected" /\ IsErrorStatus(u.outcome[1])) =>
                 /\ ~u.completion[1].raised
                 /\ IsStatusFailure(u.completion[1].value, u.outcome[1], <<0, 1>>)
                 /\ InSeq(u.completion[1].value, proc.failed_results)
    /\ \A k \in DOMAIN proc.retry_attempts :
          LET a == proc.retry_attempts[k]
          IN  IsErrorStatus(a.outcome) =>
                 /\ IsStatusFailure(a.result, a.outcome, <<0, 1>>)
                 /\ InSeq(a.result, proc.failed_results)

\* a 200 whose body has the shape {"choices": [{"text": str}]}
WellFormed(outcome) ==
    /\ outcome.kind = "response" /\ outcome.status = 200
    /\ outcome.body.t = "obj"
    /\ "choices" \in DOMAIN outcome.body.v
    /\ outcome.body.v.choices.t = "list"
    /\ Len(outcome.body.v.choices.v) > 0
    /\ outcome.body.v.choices.v[1].t = "obj"
    /\ "text" \in DOMAIN outcome.body.v.choices.v[1].v
    /\ outcome.body.v.choices.v[1].v.text.t = "str"

\* C10, as it is stated: generate_single and _process_single_task raise
\* nothing and return a result for every answer of the endpoint, with
\* success = false for every answer but a well-formed 200.
OnlyWellFormedSucceeds ==
    /\ \A k \in DOMAIN cl.generate :
          /\ ~cl.generate[k].raised
          /\ cl.generate[k].value.success => WellFormed(cl.outcome)
    /\ \A k \in DOMAIN cl.process :
          /\ ~cl.process[k].raised
          /\ cl.process[k].value.success => WellFormed(cl.outcome)

\* a 200 whose body is an object where "choices" is absent, or is a list
\* whose first element is an object
HasFirstChoice(outcome) ==
    /\ outcome.kind = "response" /\ outcome.status = 200
    /\ outcome.body.t = "obj"
    /\ "choices" \in DOMAIN outcome.body.v =>
          /\ outcome.body.v.choices.t = "list"
          /\ Len(outcome.body.v.choices.v) > 0
          /\ outcome.body.v.choices.v[1].t = "obj"

\* the "text" of the first choice is there and is not a string
HasTextThatIsNoString(outcome) ==
    /\ "choices" \in DOMAIN outcome.body.v
    /\ "text" \in DOMAIN outcome.body.v.choices.v[1].v
    /\ outcome.body.v.choices.v[1].v.text.t # "str"

\* C10, amended: generate_single and _process_single_task raise nothing and
\* return a result for every answer of the endpoint.  success is false for a
\* status other than 200, for an exception of the request, for a 200 whose
\* body is not a JSON object and for one whose "choices" is not a list that
\* starts with an object.  success is true for every other 200, a body
\* without "choices" or without "text" included, whose text is then empty;
\* but generate_single gives success = false when "text" is not a string.
SuccessFollowsBodyShape ==
    /\ \A k \in DOMAIN cl.generate :
          /\ ~cl.generate[k].raised
          /\ cl.generate[k].value.success <=>
                (HasFirstChoice(cl.outcome) /\ ~HasTextThatIsNoString(cl.outcome))
          /\ (cl.generate[k].value.success /\ ~WellFormed(cl.outcome)) =>
                cl.generate[k].value.generated_text = JStr(<<>>)
    /\ \A k \in DOMAIN cl.process :
          /\ ~cl.process[k].raised
          /\ cl.process[k].value.success <=> HasFirstChoice(cl.outcome)
          /\ (cl.process[k].value.success /\ ~HasTextThatIsNoString(cl.outcome)
                /\ ~WellFormed(cl.outcome)) =>
                cl.process[k].value.generated_text = JStr(<<>>)

\* both functions have returned a failure for a 200 whose list of choices
\* is empty
EmptyChoicesFailed ==
    /\ cl.generate # <<>> /\ cl.process # <<>>
    /\ cl.outcome = Response(200, JObj([choices |-> JList(<<>>)]), 2)
    /\ ~cl.generate[1].value.success
    /\ ~cl.process[1].value.success

\* the results that the calls of batch_generate on the stack hold
FrameResults ==
    UNION { { frames[k].all_results[i] : i \in DOMAIN frames[k].all_results }
              \cup { frames[k].successful_results[i] :
                        i \in DOMAIN frames[k].successful_results } :
            k \in DOMAIN frames }

\* the results that generate_single and _process_single_task returned
SingleResults ==
    { cl.generate[k].value : k \in DOMAIN cl.generate }
      \cup { cl.process[k].value : k \in DOMAIN cl.process }

\* C11: every result of generate_single, of _process_single_task and of the
\* orchestrators has success = false if and only if its error message is
\* not empty.
FailureIffErrorMessage ==
    \A r \in SingleResults \cup FrameResults \cup ProcResults :
        ~r.success <=> r.error_message # <<>>

\* C12: an exception that is raised while one task is processed (request,
\* parsing of the response, scoring; first round or retry round) does not
\* end batch_generate or process_batch: a call with tasks returns an
\* outcome, after every task was collected and every task of the retry
\* queue was retried.
TaskExceptionIsolated ==
    /\ (mode = "generate" /\ returned # <<>> /\ frames[1].tasks # <<>>) =>
          /\ ~returned[1].raised
          /\ AllCollected(frames[1])
    /\ (mode = "process" /\ proc.pc \in {"returned", "raised"}) =>
          /\ ~returned[1].raised
          /\ AllCollected(proc)
          /\ proc.max_retries > 0 =>
                Len(proc.retry_attempts) = Len(proc.retry_queue)

\* the failed list has a result of the task with this error message
HasFailedResult(failed_results, task, message) ==
    \E j \in DOMAIN failed_results :
        /\ failed_results[j].task_id = task.id
        /\ ~failed_results[j].success
        /\ failed_results[j].error_message = message

\* C13: when future.result() raises in the completion loop of batch_generate
\* or of process_batch, the exception is caught and a failed result of the
\* task, with the text of the exception as its error message, is appended
\* to the failed list.
RetrievalExceptionGivesFailedResult ==
    /\ \A k \in DOMAIN frames : \A i \in DOMAIN frames[k].futures :
          LET u == frames[k].futures[i]
          IN  (u.state = "collected" /\ u.completion[1].raised) =>
                 HasFailedResult(frames[k].failed_results, frames[k].tasks[i],
                                 u.completion[1].error)
    /\ \A i \in DOMAIN proc.futures :
          LET u == proc.futures[i]
          IN  (u.state = "collected" /\ u.completion[1].raised) =>
                 HasFailedResult(proc.failed_results, proc.tasks[i],
                                 u.completion[1].error)

\* the attempt of a future ended without a successful result
AttemptFailed(u) ==
    /\ u.state = "collected"
    /\ u.completion[1].raised \/ ~u.completion[1].value.success

\* C14: a task whose attempt ended in a failed result is not submitted
\* again; the tasks of a retry round are made of attempts that succeeded
\* with a score below the threshold, in both orchestrators and at every
\* depth of batch_generate.
OnlyLowQualityRetried ==
    /\ \A k \in DOMAIN frames :
          /\ \A i \in DOMAIN frames[k].futures :
                AttemptFailed(frames[k].futures[i]) =>
                   \A n \in DOMAIN sent :
                      sent[n].task_id # frames[k].tasks[i].id \o <<"_retry">>
          /\ k > 1 =>
                \A j \in DOMAIN frames[k].tasks :
                   \E i \in DOMAIN frames[k - 1].futures :
                      LET u == frames[k - 1].futures[i]
                      IN  /\ ~AttemptFailed(u)
                          /\ u.completion[1].value.quality_score
                               < frames[k - 1].quality_threshold
                          /\ frames[k].tasks[j].id
                               = frames[k - 1].tasks[i].id \o <<"_retry">>
    /\ frames # <<>> =>
          \A i \in DOMAIN frames[1].tasks :
             AttemptFailed(frames[1].futures[i]) =>
                Attempts(frames[1].tasks[i].id) = 1
    /\ \A i \in DOMAIN proc.futures :
          AttemptFailed(proc.futures[i]) =>
             /\ Attempts(proc.tasks[i].id) = 1
             /\ ~InSeq(i, proc.retry_queue)
    /\ \A k \in DOMAIN proc.retry_attempts :
          LET u == proc.futures[proc.retry_attempts[k].task]
          IN  /\ ~AttemptFailed(u)
              /\ RLess(u.completion[1].value.quality_score, <<6, 10>>)

\* batch_generate has returned after a retry round: the task that was
\* answered with status 500 got one request, the task whose text scored low
\* got more
FailedTaskNotRetried ==
    /\ mode = "generate"
    /\ returned # <<>> /\ ~returned[1].raised
    /\ \E i, j \in DOMAIN frames[1].tasks :
          /\ frames[1].futures[i].outcome[1].kind = "response"
          /\ frames[1].futures[i].outcome[1].status = 500
          /\ Attempts(frames[1].tasks[i].id) = 1
          /\ Attempts(frames[1].tasks[j].id) > 1

\* the requests n < m are two attempts in a row for one task
NextAttempt(n, m) ==
    /\ n < m
    /\ sent[n].task_id[1] = sent[m].task_id[1]
    /\ \A k \in (n + 1)..(m - 1) : sent[k].task_id[1] # sent[n].task_id[1]

\* the temperature of a request in tenths, 0.7 when it has none
TemperatureOf(request) ==
    IF "temperature" \in DOMAIN request.parameters
    THEN request.parameters.temperature ELSE 7

\* the request `retry` has the temperature max(0.3, t - 0.2) for the
\* temperature t of the request `before`, and its other parameters
IsRetryOf(retry, before) ==
    /\ DOMAIN retry.parameters = DOMAIN before.parameters \cup {"temperature"}
    /\ \A key \in DOMAIN before.parameters \ {"temperature"} :
          retry.parameters[key] = before.parameters[key]
    /\ retry.parameters.temperature >= 3
    /\ retry.parameters.temperature
         = (IF TemperatureOf(before) - 2 >= 3 THEN TemperatureOf(before) - 2 ELSE 3)

RetryLeavesTasksUnchanged ==
    /\ \A n, m \in DOMAIN sent :
          NextAttempt(n, m) =>
             /\ Len(sent[m].task_id) > Len(sent[n].task_id)
             /\ SubSeq(sent[m].task_id, 1, Len(sent[n].task_id)) = sent[n].task_id
    /\ (mode = "generate" /\ returned # <<>> /\ ~returned[1].raised) =>
          \A i \in DOMAIN frames[1].tasks : frames[1].tasks[i] \in TaskPool
    /\ (mode = "process" /\ proc.pc = "returned") =>
          \A i \in DOMAIN proc.tasks : proc.tasks[i] \in TaskPool

\* the futures of a call were submitted, and their calls started, in an
\* order of priorities that never increases
InPriorityOrder(f) ==
    \A i, j \in DOMAIN f.tasks :
        i < j =>
            /\ f.tasks[i].priority >= f.tasks[j].priority
            /\ f.futures[j].state # "queued" => f.futures[i].state # "queued"

\* the requests of the first round are the first requests of the log
FirstRound(f) ==
    { n \in DOMAIN sent : n <= Len(f.tasks) /\ Len(sent[n].task_id) = 1 }

\* the requests of the first round were posted for the tasks of the list in
\* its order, which is one of priorities that never increase
PostedInPriorityOrder(f) ==
    \A n \in FirstRound(f) :
        /\ sent[n].task_id = f.tasks[n].id
        /\ \A m \in FirstRound(f) :
              n < m => f.tasks[n].priority >= f.tasks[m].priority

\* C17: batch_generate and process_batch submit the tasks of the first
\* round to the pool in an order of priorities that never increases: no
\* task is submitted before one of higher priority, whatever the order of
\* the list that was passed.
SubmittedByPriority ==
    /\ (mode = "generate" /\ frames # <<>>) =>
          InPriorityOrder(frames[1]) /\ PostedInPriorityOrder(frames[1])
    /\ mode = "process" =>
          InPriorityOrder(proc) /\ PostedInPriorityOrder(proc)

\* the two requests of a batch of the tasks t1 (priority 1) and t2
\* (priority 2) were posted, the one of t2 first
HigherPriorityFirst ==
    /\ mode = "generate"
    /\ Len(sent) = 2
    /\ sent[1].task_id = Task2.id /\ sent[2].task_id = Task1.id
    /\ frames[1].tasks = <<Task2, Task1>>

\* the calls of a pool that have started
Started(f) == { i \in DOMAIN f.futures : f.futures[i].state # "queued" }

\* the number of tasks whose request is posted and whose Result is not yet
\* returned, over the pools of every round
InFlight ==
    IF mode = "generate"
    THEN Sum([k \in DOMAIN frames |-> Cardinality(Running(frames[k]))])
    ELSE IF mode = "process" THEN Cardinality(Running(proc))
    ELSE 0

\* the number of requests that were posted under the identifier id
RequestsFor(id) == Cardinality({ n \in DOMAIN sent : sent[n].task_id = id })

\* batch_generate: an attempt of a round that has not returned has posted one
\* request when its call has started and none before, and no request of the
\* log, the ones of the rounds that have returned included, repeats another
OneRequestPerGenerateAttempt ==
    /\ \A k \in DOMAIN frames : \A i \in DOMAIN frames[k].tasks :
          RequestsFor(frames[k].tasks[i].id)
              = IF i \in Started(frames[k]) THEN 1 ELSE 0
    /\ \A n, m \in DOMAIN sent : sent[n] = sent[m] => n = m

\* process_batch: the requests are those of the calls of the pool that have
\* started and of the retries of _handle_retries; a retry whose call raised
\* has posted its request and has left no record
OneRequestPerProcessAttempt ==
    Len(sent) = Cardinality(Started(proc)) + Len(proc.retry_attempts)
                + (IF /\ proc.pc = "raised"
                      /\ returned[1] = Raise(UncaughtMessage)
                   THEN 1 ELSE 0)

\* C18: at every moment of a batch run, retry rounds included, at most
\* max_concurrent tasks are in flight (a retry round starts only when no call
\* of the round before is running, and _handle_retries runs one retry at a
\* time), and each task attempt issues exactly one request.
InFlightBounded ==
    (mode \in {"generate", "process"}) =>
        /\ InFlight <= max_concurrent
        /\ mode = "generate" => OneRequestPerGenerateAttempt
        /\ mode = "process" => OneRequestPerProcessAttempt
        /\ mode = "generate" =>
              \A k \in DOMAIN frames : k < Top => Running(frames[k]) = {}
        /\ (mode = "process" /\ Len(sent) > Cardinality(Started(proc))) =>
              Running(proc) = {}

\* a retry round has max_concurrent = 2 calls in flight while a third task
\* would be waiting, or the first round has all workers busy with a call queued
AllWorkersBusy ==
    /\ mode = "generate"
    /\ frames # <<>>
    /\ InFlight = max_concurrent
    /\ \E i \in DOMAIN frames[Top].futures :
          frames[Top].futures[i].state = "queued"

\* the number of Results of a list that carry the identifier id
ResultsFor(results, id) ==
    Cardinality({ n \in DOMAIN results : results[n].task_id = id })

\* batch_generate: a collected attempt has one Result in all_results and one
\* in the lists successful, failed and low-quality together; another has none
OneResultPerGenerateAttempt(f) ==
    \A i \in DOMAIN f.tasks :
        LET id == f.tasks[i].id
            n == IF f.futures[i].state = "collected" THEN 1 ELSE 0
        IN  /\ ResultsFor(f.all_results, id) = n
            /\ ResultsFor(f.successful_results, id)
                 + ResultsFor(f.failed_results, id)
                 + ResultsFor(f.low_quality_results, id) = n

\* the successful Results of the pool: at the return the list also holds the
\* Results of the retries, which carry the identifiers of their tasks
FirstRoundSuccessful(p) ==
    IF p.pc = "returned"
    THEN SubSeq(p.successful_results, 1,
                Len(p.successful_results) - Len(p.retry_results))
    ELSE p.successful_results

\* process_batch: a collected attempt of the pool has one entry in the lists
\* successful, failed and retry queue together, another has none, and every
\* attempt of _handle_retries has one Result in its list of results
OneResultPerProcessAttempt(p) ==
    /\ \A i \in DOMAIN p.tasks :
          ResultsFor(FirstRoundSuccessful(p), p.tasks[i].id)
            + ResultsFor(p.failed_results, p.tasks[i].id)
            + Cardinality({ n \in DOMAIN p.retry_queue : p.retry_queue[n] = i })
          = IF p.futures[i].state = "collected" THEN 1 ELSE 0
    /\ Len(p.retry_results) = Len(p.retry_attempts)

\* C19: under every interleaving of worker completions, each completed task
\* attempt contributes exactly one Result to the shared result lists, neither
\* lost nor duplicated (the appends run one at a time, in the loop over
\* as_completed of the calling thread).
EachAttemptOneResult ==
    /\ mode = "generate" =>
          \A k \in DOMAIN frames : OneResultPerGenerateAttempt(frames[k])
    /\ mode = "process" => OneResultPerProcessAttempt(proc)

\* the identifiers of the tasks of a list are distinct
DistinctIds(tasks) ==
    \A i, j \in DOMAIN tasks : tasks[i].id = tasks[j].id => i = j

\* the tasks of every round of batch_generate that has not returned
RoundTasks ==
    UNION { { <<k, i>> : i \in DOMAIN frames[k].tasks } : k \in DOMAIN frames }

\* C20: within one batch every task has a distinct identifier: the tasks
\* that create_task and create_tasks build for the batch, also for equal
\* prompts and equal clock readings, and the retry tasks derived from the
\* tasks of the batch; and the task_id of every Result is the identifier of
\* the attempt that produced it.
TaskIdsDistinct ==
    /\ mode = "create" => DistinctIds(cr.tasks)
    /\ mode = "generate" =>
          /\ \A a, b \in RoundTasks :
                frames[a[1]].tasks[a[2]].id = frames[b[1]].tasks[b[2]].id
                    => a = b
          /\ \A k \in DOMAIN frames : \A i \in DOMAIN frames[k].tasks :
                LET u == frames[k].futures[i]
                IN  (u.state = "collected" /\ ~u.completion[1].raised) =>
                        u.completion[1].value.task_id = frames[k].tasks[i].id
    /\ mode = "process" =>
          /\ DistinctIds(proc.tasks)
          /\ \A i \in DOMAIN proc.tasks :
                LET u == proc.futures[i]
                IN  (u.state = "collected" /\ ~u.completion[1].raised) =>
                        u.completion[1].value.task_id = proc.tasks[i].id

\* the identifier id is that of the task, or of a retry task derived from
\* the task, with the identifier of
IsAttemptOf(id, of) == Len(id) >= Len(of) /\ SubSeq(id, 1, Len(of)) = of

\* the number of Results of a list that the task, in any of its attempts,
\* has contributed
AcceptedFor(results, task) ==
    Cardinality({ n \in DOMAIN results : IsAttemptOf(results[n].task_id, task.id) })

\* a rate <<numerator, denominator>> is at most 100
AtMostHundred(rate) == rate[2] > 0 /\ rate[1] <= 100 * rate[2]

\* C21: no submitted task contributes more than one Result to the accepted
\* (successful) set, at any retry depth, so that successful_count never
\* exceeds the number of submitted tasks and success_rate never exceeds 100.
AcceptedAtMostOncePerTask ==
    /\ mode = "generate" =>
          /\ \A k \in DOMAIN frames :
                /\ \A i \in DOMAIN frames[k].tasks :
                      AcceptedFor(frames[k].successful_results,
                                  frames[k].tasks[i]) <= 1
                /\ Len(frames[k].successful_results) <= Len(frames[k].tasks)
          /\ (returned # <<>> /\ ~returned[1].raised) =>
                /\ returned[1].value.summary.successful_count
                     <= Len(frames[1].tasks)
                /\ AtMostHundred(returned[1].value.summary.success_rate)
    /\ mode = "process" =>
          /\ \A i \in DOMAIN proc.tasks :
                AcceptedFor(FirstRoundSuccessful(proc), proc.tasks[i])
                  + AcceptedFor(proc.retry_results, proc.tasks[i]) <= 1
          /\ proc.pc = "returned" =>
                /\ returned[1].value.summary.successful_count <= Len(proc.tasks)
                /\ Len(returned[1].value.successful_results) <= Len(proc.tasks)
                /\ proc.tasks # <<>> =>
                      AtMostHundred(returned[1].value.summary.success_rate)

\* batch_generate has returned a batch of two tasks, one accepted in the
\* first round and one accepted in a retry: success_rate is 100
EveryTaskAcceptedOnce ==
    /\ mode = "generate"
    /\ returned # <<>> /\ ~returned[1].raised
    /\ Len(frames[1].tasks) = 2
    /\ returned[1].value.summary.successful_count = 2
    /\ \E n \in DOMAIN returned[1].value.successful :
          Len(returned[1].value.successful[n].task_id) > 1
    /\ \E n \in DOMAIN returned[1].value.successful :
          Len(returned[1].value.successful[n].task_id) = 1

\* how far a call of the pool has come: queued, in flight, ended and collected
Rank(state) ==
    IF state = "queued" THEN 0 ELSE IF state = "running" THEN 1 ELSE 2

\* in one step a call of the pool stays where it is or moves to the next state
Advances(before, after) ==
    \A i \in DOMAIN before :
        Rank(after[i].state) \in { Rank(before[i].state), Rank(before[i].state) + 1 }

\* a step moves no attempt back and none over a state
AttemptsAdvance ==
    /\ \A k \in DOMAIN frames \cap DOMAIN frames' :
          Advances(frames[k].futures, frames'[k].futures)
    /\ (proc.pc # "idle") => Advances(proc.futures, proc'.futures)

\* a batch call has been made
BatchCalled ==
    \/ mode = "generate" /\ frames # <<>>
    \/ mode = "process" /\ proc.pc # "idle"

\* the batch call has returned its results and no attempt is queued or in
\* flight, in the pool or in the retry queue
BatchReturned ==
    /\ returned # <<>> /\ ~returned[1].raised
    /\ mode = "generate" => Len(frames) = 1 /\ AllCollected(frames[1])
    /\ mode = "process" =>
          /\ AllCollected(proc)
          /\ ShouldHandleRetries(proc) =>
                Len(proc.retry_attempts) = Len(proc.retry_queue)

\* C22: when every request returns or times out, every attempt goes from
\* queued to in flight to ended, once and never back, and the batch call
\* eventually returns with no task left queued or in flight.
EveryBatchCallReturns ==
    /\ [][AttemptsAdvance]_vars
    /\ BatchCalled ~> BatchReturned

\* the total generation time of the Results of every round of batch_generate
\* that has ended: each round has saved the total of its own Results
TimeOfEveryRound ==
    Sum([n \in DOMAIN saved |-> saved[n].total_generation_time])

\* the generation times of every Result that an attempt of process_batch has
\* produced: accepted, failed and low-quality ones of the pool, and the ones
\* of the retries
TimesOfEveryAttempt(p) ==
    GenerationTimes(FirstRoundSuccessful(p))
      \o GenerationTimes(p.failed_results)
      \o [n \in DOMAIN p.retry_queue |->
            p.futures[p.retry_queue[n]].completion[1].value.generation_time]
      \o [n \in DOMAIN p.retry_attempts |->
            p.retry_attempts[n].result.generation_time]

\* C23: the mean and the total generation time of the batch summary are
\* computed over every attempted Result of the run: accepted, low-quality
\* and failed Results and the Results of retry attempts are all included.
TimesOverEveryAttempt ==
    /\ (mode = "generate" /\ returned # <<>> /\ ~returned[1].raised) =>
          returned[1].value.summary.total_generation_time = TimeOfEveryRound
    /\ (mode = "process" /\ proc.pc = "returned") =>
          returned[1].value.summary.average_generation_time
            = (IF TimesOfEveryAttempt(proc) = <<>> THEN 0
               ELSE RoundDiv(100 * Sum(TimesOfEveryAttempt(proc)),
                             Len(TimesOfEveryAttempt(proc))))

\* the elements of a list, without their order
SetOf(xs) == { xs[n] : n \in DOMAIN xs }

\* every Result that batch_generate holds, in the lists of every round that
\* has not returned
HeldResults ==
    UNION { { frames[k].all_results[n] : n \in DOMAIN frames[k].all_results }
              \cup { frames[k].successful_results[n] :
                        n \in DOMAIN frames[k].successful_results } :
            k \in DOMAIN frames }

\* the Results in the lists of the round of batch_generate that is running:
\* the lists of the rounds that wait for it do not change meanwhile
RunningRoundResults ==
    IF frames = <<>> THEN {}
    ELSE SetOf(frames[Len(frames)].all_results)
           \cup SetOf(frames[Len(frames)].successful_results)

\* every pair <<prompt, Result>> that process_batch has scored, in the pool
\* and in _handle_retries
ScoredByController ==
    { <<proc.tasks[i].prompt, proc.futures[i].completion[1].value>> :
        i \in { j \in DOMAIN proc.futures :
                  /\ proc.futures[j].state = "collected"
                  /\ ~proc.futures[j].completion[1].raised
                  /\ proc.futures[j].completion[1].value.success } }
    \cup
    { <<proc.tasks[proc.retry_attempts[n].task].prompt, proc.retry_attempts[n].result>> :
        n \in { m \in DOMAIN proc.retry_attempts :
                  proc.retry_attempts[m].result.success } }

NewTasks == SubSeq(cr'.tasks, Len(cr.tasks) + 1, Len(cr'.tasks))

\* a step that is a call of create_tasks: one task per prompt, in the order
\* of the prompts, with the items of the mapping that was passed, or of the
\* defaults, each in a mapping object of its own
OneTaskPerPrompt ==
    LET call == cr'.last[1]
        given == SourceMapping(call.parameters, CreateTasksDefaults)
    IN  /\ Len(NewTasks) = Len(call.prompts)
        /\ \A i \in DOMAIN call.prompts :
              /\ NewTasks[i].prompt = call.prompts[i]
              /\ NewTasks[i].parameters = given
              /\ cr'.made[call.first + i].ref \notin cr'.callers
              /\ cr'.made[call.first + i].ref # call.source
              /\ \A j \in DOMAIN call.prompts :
                    cr'.made[call.first + i].ref = cr'.made[call.first + j].ref
                        => i = j

\* a step that changes the parameters of a task changes those of one task
\* and leaves the mappings of the callers as they are
OneTaskChanged ==
    /\ \A i, j \in DOMAIN cr.tasks :
          (cr'.tasks[i] # cr.tasks[i] /\ cr'.tasks[j] # cr.tasks[j]) => i = j
    /\ \A c \in cr.callers : cr'.heap[c] = cr.heap[c]
    /\ cr.last # <<>> => cr'.heap[cr.last[1].source] = cr.heap[cr.last[1].source]

CreateTasksStep ==
    /\ cr'.last # cr.last => OneTaskPerPrompt
    /\ (Len(cr'.tasks) = Len(cr.tasks) /\ cr'.heap # cr.heap) => OneTaskChanged

\* C25: create_tasks returns exactly one task per prompt, in prompt order,
\* each with the given parameter values (the defaults when none are given)
\* in its own copy of the mapping: changing the parameters of one task
\* changes those of no other task and not the mapping of the caller.
CreateTasksOwnCopies == [][CreateTasksStep]_vars

\* of two tasks that one call of create_tasks built from the caller's
\* mapping, one has had its temperature lowered; the other and the caller's
\* mapping still have the temperature that was passed
OneCopyChanged ==
    /\ mode = "create"
    /\ cr.last # <<>>
    /\ Len(cr.last[1].prompts) = 2
    /\ cr.last[1].parameters # <<>>
    /\ cr.tasks[cr.last[1].first + 1].parameters # cr.last[1].parameters[1]
    /\ cr.tasks[cr.last[1].first + 2].parameters = cr.last[1].parameters[1]
    /\ cr.heap[cr.last[1].source] = cr.last[1].parameters[1]

\* C26: save_results(results, path), called on an AdvancedBatchProcessor,
\* creates the file as a JSON document with the keys successful_results,
\* failed_results, summary and timestamp, and reading the file back yields
\* the summary values that were passed in.
SavedFileRoundTrip ==
    (mode = "process" /\ proc.save # <<>> /\ proc.save[1].how = "attribute") =>
        /\ ~proc.save[1].completion.raised
        /\ saved # <<>>
        /\ LET loaded == JsonLoad(saved[Len(saved)])
           IN  /\ DOMAIN loaded = {"successful_results", "failed_results",
                                   "summary", "timestamp"}
               /\ loaded.summary = returned[1].value.summary

\* C27: the total_tasks of the summary is the number of tasks that were
\* submitted to the orchestrator, for every mix of accepted, low-quality and
\* failed outcomes: a task that is retried, or that stays low-quality after
\* its retries, is counted once.
TotalTasksIsSubmitted ==
    /\ (mode = "generate" /\ returned # <<>> /\ ~returned[1].raised) =>
          returned[1].value.summary.total_tasks = Len(frames[1].tasks)
    /\ (mode = "process" /\ proc.pc = "returned") =>
          returned[1].value.summary.total_tasks = Len(proc.tasks)

\* every Result of the list succeeded with a score of at least the threshold
\* of batch_generate, in thousandths
AllMeet(results, threshold) ==
    \A n \in DOMAIN results :
        results[n].success /\ results[n].quality_score >= threshold

\* every Result of the list succeeded with a score of at least min_quality
AllMeetMinQuality(results) ==
    \A n \in DOMAIN results :
        results[n].success /\ ~RLess(results[n].quality_score, MinQuality)

\* C28: every Result in the accepted (successful) list of batch_generate and
\* of process_batch has success = true and a quality score of at least the
\* threshold in force, whether it was accepted in the first round or added
\* from a retry round at any depth.
AcceptedMeetThreshold ==
    /\ mode = "generate" =>
          /\ \A k \in DOMAIN frames :
                /\ frames[k].quality_threshold = frames[1].quality_threshold
                /\ AllMeet(frames[k].successful_results,
                           frames[1].quality_threshold)
          /\ (returned # <<>> /\ ~returned[1].raised) =>
                AllMeet(returned[1].value.successful, frames[1].quality_threshold)
    /\ mode = "process" =>
          /\ AllMeetMinQuality(proc.successful_results)
          /\ AllMeetMinQuality(proc.retry_results)
          /\ proc.pc = "returned" =>
                AllMeetMinQuality(returned[1].value.successful_results)

\* process_batch has returned an accepted list that holds the Result of a
\* retry, after a retry of another task was rejected
RetryResultAccepted ==
    /\ mode = "process"
    /\ proc.pc = "returned"
    /\ proc.retry_results # <<>>
    /\ Len(proc.retry_results) < Len(proc.retry_attempts)
    /\ \E n \in DOMAIN returned[1].value.successful_results :
          InSeq(returned[1].value.successful_results[n], proc.retry_results)

\* the round of batch_generate f, had its first i calls been collected in the
\* order of their submission, with the answers they got and what
\* future.result() gave for them
RECURSIVE GenInSubmissionOrder(_, _)
GenInSubmissionOrder(f, i) ==
    IF i = 0
    THEN [f EXCEPT !.all_results = <<>>, !.successful_results = <<>>,
                   !.failed_results = <<>>, !.low_quality_results = <<>>]
    ELSE GenClassify(GenInSubmissionOrder(f, i - 1), i, f.futures[i].outcome[1],
                     f.futures[i].completion[1])

\* the same for the pool of process_batch
RECURSIVE ProcInSubmissionOrder(_, _)
ProcInSubmissionOrder(p, i) ==
    IF i = 0
    THEN [p EXCEPT !.successful_results = <<>>, !.failed_results = <<>>,
                   !.retry_queue = <<>>]
    ELSE ProcClassify(ProcInSubmissionOrder(p, i - 1), i, p.futures[i].outcome[1],
                      p.futures[i].completion[1])

\* two lists have the same elements, in whatever order
SameElements(xs, ys) == Len(xs) = Len(ys) /\ SetOf(xs) = SetOf(ys)

\* the retry round that batch_generate has just called: none of its calls
\* has started
JustCalled(k) ==
    /\ k = Len(frames)
    /\ \A i \in DOMAIN frames[k].futures : frames[k].futures[i].state = "queued"

\* a round of batch_generate whose calls are all collected holds, in each of
\* its lists, the Results it would hold after a collection in submission
\* order, and the tasks of the retry round it calls are the same.  The lists
\* of a round change only while it is the running one, so it is compared
\* while it runs, when it calls its retry round, and when it goes on
RoundIndependentOfOrder(k) ==
    LET f == frames[k]
        g == GenInSubmissionOrder(f, Len(f.tasks))
    IN  (AllCollected(f) /\ (k = Len(frames) \/ JustCalled(k + 1))) =>
          /\ SameElements(f.all_results, g.all_results)
          /\ SameElements(f.failed_results, g.failed_results)
          /\ SameElements(f.low_quality_results, g.low_quality_results)
          /\ f.pc = "loop" =>
                SameElements(f.successful_results, g.successful_results)
          /\ k < Len(frames) =>
                SameElements(frames[k + 1].tasks,
                             RetryTasks(RetryCandidates(g)))
          /\ (k = 1 /\ returned # <<>> /\ ~returned[1].raised) =>
                /\ returned[1].value.summary.failed_count = Len(g.failed_results)
                /\ returned[1].value.summary.low_quality_count
                     = Len(g.low_quality_results)
                /\ returned[1].value.summary.successful_count
                     >= Len(g.successful_results)
                /\ SetOf(g.successful_results)
                     \subseteq SetOf(returned[1].value.successful)
                /\ SameElements(returned[1].value.failed, g.failed_results)
                /\ SameElements(returned[1].value.low_quality,
                                g.low_quality_results)

\* the pool of process_batch, all collected, holds the Results and the retry
\* queue of a collection in submission order, and the accepted retries are
\* the retries that meet min_quality
PoolIndependentOfOrder ==
    LET g == ProcInSubmissionOrder(proc, Len(proc.tasks))
        accepted == { n \in DOMAIN proc.retry_attempts :
                        /\ proc.retry_attempts[n].result.success
                        /\ RetryAccepted(proc.retry_attempts[n].result.quality_score) }
    IN  (AllCollected(proc) /\ proc.pc # "idle") =>
          /\ SameElements(FirstRoundSuccessful(proc), g.successful_results)
          /\ SameElements(proc.failed_results, g.failed_results)
          /\ SameElements(proc.retry_queue, g.retry_queue)
          /\ proc.pc \in {"retries", "returned"} =>
                SetOf(proc.retry_results)
                  = { proc.retry_attempts[n].result : n \in accepted }
          /\ proc.pc = "returned" =>
                /\ returned[1].value.summary.successful_count
                     = Len(g.successful_results) + Len(proc.retry_results)
                /\ returned[1].value.summary.failed_count = Len(g.failed_results)
                /\ returned[1].value.summary.total_tasks
                     = Len(g.successful_results) + Len(proc.retry_results)
                         + Len(g.failed_results)

\* C29: for fixed answers of the endpoint to each attempt, the Results in
\* each list (accepted, failed, low-quality) and the counts of the summary of
\* batch_generate and process_batch are the same for every completion order
\* of the pool: they are those of a collection in submission order.
ResultsIndependentOfCompletionOrder ==
    /\ mode = "generate" => \A k \in DOMAIN frames : RoundIndependentOfOrder(k)
    /\ mode = "process" => PoolIndependentOfOrder

\* two calls were collected in the reverse of their submission order, with
\* answers of different kinds, and the batch has returned
CollectedOutOfOrder ==
    /\ mode = "generate"
    /\ returned # <<>> /\ ~returned[1].raised
    /\ Len(frames[1].tasks) = 2
    /\ Len(frames[1].all_results) = 2
    /\ frames[1].all_results[1].task_id = frames[1].tasks[2].id
    /\ frames[1].all_results[1].success # frames[1].all_results[2].success

\* the Results of the list successful that the round's own tasks produced
OwnAccepted(f) ==
    SelectSeq(f.successful_results,
              LAMBDA r : \E i \in DOMAIN f.tasks : f.tasks[i].id = r.task_id)

\* the number of the lists accepted, failed and low_quality that hold r
ListsHolding(f, r) ==
    Cardinality({ n \in DOMAIN OwnAccepted(f) : OwnAccepted(f)[n] = r })
      + Cardinality({ n \in DOMAIN f.failed_results : f.failed_results[n] = r })
      + Cardinality({ n \in DOMAIN f.low_quality_results :
                        f.low_quality_results[n] = r })

\* a round whose calls are all collected: one Result in all_results for
\* every task, each of them in one of the three lists, and the three
\* lengths add up to the number of tasks
RoundPartitioned(f) ==
    AllCollected(f) =>
      /\ \A i \in DOMAIN f.tasks : ResultsFor(f.all_results, f.tasks[i].id) = 1
      /\ \A n \in DOMAIN f.all_results : ListsHolding(f, f.all_results[n]) = 1
      /\ Len(f.failed_results) + Len(f.low_quality_results)
            + Len(OwnAccepted(f)) = Len(f.tasks)

\* C30: in batch_generate the Results of a call's own round are partitioned
\* exactly: every submitted task has exactly one Result in all, each Result
\* of all is in exactly one of first-round accepted, failed and low_quality,
\* and failed_count + low_quality_count + the number of first-round accepted
\* is total_tasks in the returned summary.
OwnRoundPartitioned ==
    mode = "generate" =>
      /\ \A k \in DOMAIN frames : RoundPartitioned(frames[k])
      /\ (returned # <<>> /\ ~returned[1].raised) =>
            returned[1].value.summary.failed_count
              + returned[1].value.summary.low_quality_count
              + Len(OwnAccepted(frames[1]))
            = returned[1].value.summary.total_tasks

\* no call of the round ended with an exception of future.result()
NoCallRaised(f) ==
    \A i \in DOMAIN f.futures :
        f.futures[i].state = "collected" => ~f.futures[i].completion[1].raised

\* the partition holds in the rounds in which future.result() never raised
PartitionedUnlessCallRaised ==
    mode = "generate" =>
      \A k \in DOMAIN frames : NoCallRaised(frames[k]) => RoundPartitioned(frames[k])

====
